---- MODULE Spec2Model ----
(***************************************************************************)
(* Progress / enrollment / XP subsystem of the learning-platform backend.  *)
(* Every HTTP request is a process that runs its handler one store call    *)
(* (one await) at a time; requests interleave at the awaits.  The document *)
(* store offers atomic single-document operations and unique indexes.      *)
(***************************************************************************)
EXTENDS Integers, FiniteSets, Sequences, TLC

\* ------------------------------------------------------------------ bounds
NumUsers == 1
NumCourses == 2
NumLessons == 4
MaxReqs == 2
MaxSeqReqs == 3
NumCases == 2

\* ------------------------------------------------------- program constants
XP_REWARD == 50
LESSON_INC == 1

Users == 1..NumUsers
Courses == 1..NumCourses
LessonIds == 1..NumLessons
NumTargets == NumLessons \div 2
TargetLessons == 1..NumTargets     \* the lessons the progress clients work on
Reqs == 1..MaxReqs                 \* requests that may overlap one another
SeqReqs == 1..MaxSeqReqs           \* requests issued one after the other
Slots == Reqs \cup SeqReqs
NoToken == 0          \* a request without a valid bearer token
NoCourseId == 0       \* a request body without courseId
NullDate == 0         \* completedAt: null

VARIABLES
    users,          \* User collection: ids of the existing user documents
    stats,          \* User.stats of every user id: [totalXp, lessonsCompleted]
    courses,        \* Course collection: ids of the existing courses
    lessons,        \* Lesson collection: records [id, courseId, orderIndex]
    enrollments,    \* Enrollment collection: records [id, userId, courseId, enrolledAt, lastAccessedAt]
    progress,       \* LessonProgress collection: records [id, userId, lessonId, isCompleted, completedAt]
    req,            \* the requests: handler, position, locals and response
    clock,          \* the value new Date() returns next
    everCompleted,  \* history: (user, lesson) pairs whose record has had isCompleted = true
    serial,         \* the clients send a request only after the previous one was answered
    submissions,    \* Submission collection: records [id, userId, challengeId, status]
    judge0          \* the judging service: "up" answers or refuses its calls, "silent" never does

vars == <<users, stats, courses, lessons, enrollments, progress, req, clock, everCompleted,
          serial, submissions, judge0>>

\* ------------------------------------------------------------ request slots
IdleReq ==
    [op |-> "none", pc |-> "idle", user |-> NoToken, lesson |-> 0, course |-> NoCourseId,
     isCompleted |-> FALSE, wasAlreadyCompleted |-> FALSE, status |-> 0,
     awarded |-> FALSE, doneBefore |-> {}, startCompleted |-> FALSE,
     startEver |-> FALSE, startStats |-> <<0, 0>>, endStats |-> <<0, 0>>,
     existingFound |-> FALSE, startStore |-> {}, endStore |-> {},
     lessonSeq |-> <<>>, userProgress |-> {}, result |-> <<>>,
     index |-> 0, quickResume |-> {}, enrollmentsData |-> {}, userDoc |-> {}, paths |-> {},
     challenge |-> 0, language |-> "", pending |-> {}, passedCount |-> 0,
     judgeFailed |-> FALSE, completedCount |-> 0]

Started(r) == req[r].pc # "idle"
Done(r) == req[r].pc = "done"
InFlight(r) == Started(r) /\ ~Done(r)

DoneSet == {q \in Slots : Done(q)}
NoneInFlight == \A q \in Slots : ~InFlight(q)

\* Requests are interchangeable: slot r is used once slot r - 1 is in use.  Overlapping
\* clients send up to MaxReqs requests, a serial client up to MaxSeqReqs.
CanStart(r) ==
    /\ req[r].pc = "idle"
    /\ IF r = 1 THEN TRUE ELSE Started(r - 1)
    /\ IF serial THEN r \in SeqReqs /\ NoneInFlight ELSE r \in Reqs

StatsOf(u) == <<stats[u].totalXp, stats[u].lessonsCompleted>>

Respond(r, code) == [req[r] EXCEPT !.pc = "done", !.status = code,
                                   !.wasAlreadyCompleted = FALSE,
                                   !.endStats = IF req[r].user \in Users
                                                THEN StatsOf(req[r].user) ELSE <<0, 0>>]

\* ------------------------------------------------------- auth middleware
\* mutant: a request without token is told it lacks permission
Rejected_Forbidden(op, code) ==
    [IdleReq EXCEPT !.op = op, !.pc = "done", !.status = IF code = 401 THEN 403 ELSE code,
                    !.doneBefore = DoneSet]

\* A request the middleware or the validation answers before the handler reads anything.
Rejected(op, code) == [IdleReq EXCEPT !.op = op, !.pc = "done", !.status = code,
                                      !.doneBefore = DoneSet]

\* mutant: the middleware lets a request without token through
authenticate_Optional(token) == TRUE

authenticate(token) == token # NoToken /\ token \in users

\* ---------------------------------------------------- LessonProgress store
ProgressMatches(store, u, l) == {p \in store : p.userId = u /\ p.lessonId = l}

\* LessonProgress.findOne({userId, lessonId}): the set holding the document found
ProgressFindOne(store, u, l) ==
    IF ProgressMatches(store, u, l) = {} THEN {}
    ELSE {CHOOSE p \in ProgressMatches(store, u, l) :
            \A q \in ProgressMatches(store, u, l) : p.id <= q.id}

\* mutant: the earlier state is not read from the record
wasAlreadyCompletedOf_NotRead(existingProgress) == FALSE

\* existingProgress?.isCompleted || false
wasAlreadyCompletedOf(existingProgress) == \E p \in existingProgress : p.isCompleted

\* mutant: the completed flag is never cleared
ProgressUpdateDoc_Sticky(isCompleted, date) ==
    [isCompleted |-> TRUE, completedAt |-> date]

\* mutant: completedAt is stamped on every update
ProgressUpdateDoc_AlwaysDated(isCompleted, date) ==
    [isCompleted |-> isCompleted, completedAt |-> date]

\* the update document { isCompleted: isCompleted || false, completedAt: isCompleted ? new Date() : null }
ProgressUpdateDoc(isCompleted, date) ==
    [isCompleted |-> isCompleted, completedAt |-> IF isCompleted THEN date ELSE NullDate]

\* mutant: the filter also carries the new isCompleted and no unique index backs the upsert
ProgressFindOneAndUpdate_FilterOnState(store, u, l, doc, newId) ==
    IF \E p \in store : p.userId = u /\ p.lessonId = l /\ p.isCompleted = doc.isCompleted
    THEN store
    ELSE store \cup {[id |-> newId, userId |-> u, lessonId |-> l,
                      isCompleted |-> doc.isCompleted, completedAt |-> doc.completedAt]}

\* mutant: an update to "not completed" removes the record
ProgressFindOneAndUpdate_RemoveOnFalse(store, u, l, doc, newId) ==
    IF ~doc.isCompleted THEN {p \in store : p.userId # u \/ p.lessonId # l}
    ELSE IF \E p \in store : p.userId = u /\ p.lessonId = l
    THEN {IF p.userId = u /\ p.lessonId = l
          THEN [p EXCEPT !.isCompleted = doc.isCompleted, !.completedAt = doc.completedAt]
          ELSE p : p \in store}
    ELSE store \cup {[id |-> newId, userId |-> u, lessonId |-> l,
                      isCompleted |-> doc.isCompleted, completedAt |-> doc.completedAt]}

\* LessonProgress.findOneAndUpdate(filter, update, {upsert: true, new: true}) under the
\* unique index (userId, lessonId): one atomic find-and-modify, inserting when nothing matches
ProgressFindOneAndUpdate(store, u, l, doc, newId) ==
    IF ProgressFindOne(store, u, l) = {}
    THEN store \cup {[id |-> newId, userId |-> u, lessonId |-> l,
                      isCompleted |-> doc.isCompleted, completedAt |-> doc.completedAt]}
    ELSE {IF p \in ProgressFindOne(store, u, l)
          THEN [p EXCEPT !.isCompleted = doc.isCompleted, !.completedAt = doc.completedAt]
          ELSE p : p \in store}

\* mutant: the award does not look at the earlier state
AwardCondition_NoCheck(isCompleted, wasCompleted) == isCompleted

\* if (isCompleted && !wasAlreadyCompleted)
AwardCondition(isCompleted, wasCompleted) == isCompleted /\ ~wasCompleted

\* mutant: only the XP is incremented
StatsInc_XpOnly(st, u) ==
    IF u \in users
    THEN [st EXCEPT ![u] = [totalXp |-> st[u].totalXp + XP_REWARD,
                            lessonsCompleted |-> st[u].lessonsCompleted]]
    ELSE st

\* User.findByIdAndUpdate(id, { $inc: { 'stats.lessonsCompleted': 1, 'stats.totalXp': 50 } })
StatsInc(st, u) ==
    IF u \in users
    THEN [st EXCEPT ![u] = [totalXp |-> st[u].totalXp + XP_REWARD,
                            lessonsCompleted |-> st[u].lessonsCompleted + LESSON_INC]]
    ELSE st

PersistedCompleted(u, l) == \E p \in ProgressMatches(progress, u, l) : p.isCompleted

\* --------------------------------------------- PUT /users/progress/:lessonId
\* The request arrives and passes (or fails) the authenticate middleware.
updateLessonProgress_request(r, token, l, target) ==
    /\ CanStart(r)
    /\ IF authenticate(token)
       THEN req' = [req EXCEPT ![r] =
                [IdleReq EXCEPT !.op = "updateLessonProgress", !.pc = "findOne",
                                !.user = token, !.lesson = l, !.isCompleted = target,
                                !.doneBefore = DoneSet,
                                !.startCompleted = PersistedCompleted(token, l),
                                !.startEver = (<<token, l>> \in everCompleted),
                                !.startStats = StatsOf(token)]]
       ELSE req' = [req EXCEPT ![r] = Rejected("updateLessonProgress", 401)]
    /\ UNCHANGED <<users, stats, courses, lessons, enrollments, progress, clock, everCompleted, serial, submissions, judge0>>

\* const existingProgress = await LessonProgress.findOne(...)
updateLessonProgress_findOne(r) ==
    /\ req[r].op = "updateLessonProgress" /\ req[r].pc = "findOne"
    /\ req' = [req EXCEPT ![r].pc = "findOneAndUpdate",
                          ![r].existingFound =
                              (ProgressFindOne(progress, req[r].user, req[r].lesson) # {}),
                          ![r].wasAlreadyCompleted =
                              wasAlreadyCompletedOf(ProgressFindOne(progress, req[r].user, req[r].lesson))]
    /\ UNCHANGED <<users, stats, courses, lessons, enrollments, progress, clock, everCompleted, serial, submissions, judge0>>

\* const progress = await LessonProgress.findOneAndUpdate(...); responds at once
\* unless the award is due
updateLessonProgress_findOneAndUpdate(r) ==
    /\ req[r].op = "updateLessonProgress" /\ req[r].pc = "findOneAndUpdate"
    /\ progress' = ProgressFindOneAndUpdate(progress, req[r].user, req[r].lesson,
                        ProgressUpdateDoc(req[r].isCompleted, clock), r)
    /\ everCompleted' = IF \E p \in ProgressMatches(progress', req[r].user, req[r].lesson) : p.isCompleted
                        THEN everCompleted \cup {<<req[r].user, req[r].lesson>>}
                        ELSE everCompleted
    /\ req' = [req EXCEPT ![r] =
                IF AwardCondition(req[r].isCompleted, req[r].wasAlreadyCompleted)
                THEN [req[r] EXCEPT !.pc = "findByIdAndUpdate"]
                ELSE Respond(r, 200)]
    /\ UNCHANGED <<users, stats, courses, lessons, enrollments, clock, serial, submissions, judge0>>

\* await User.findByIdAndUpdate(req.user.id, { $inc: ... }); res.status(200)
updateLessonProgress_findByIdAndUpdate(r) ==
    /\ req[r].op = "updateLessonProgress" /\ req[r].pc = "findByIdAndUpdate"
    /\ stats' = StatsInc(stats, req[r].user)
    /\ req' = [req EXCEPT ![r] =
                [req[r] EXCEPT !.pc = "done", !.status = 200, !.awarded = TRUE,
                               !.endStats = <<stats'[req[r].user].totalXp,
                                              stats'[req[r].user].lessonsCompleted>>]]
    /\ UNCHANGED <<users, courses, lessons, enrollments, progress, clock, everCompleted, serial, submissions, judge0>>

\* mutant: the error is swallowed and the handler carries on to the award and the 200
updateLessonProgress_catch_Swallow(r) ==
    /\ req[r].op = "updateLessonProgress"
    /\ req[r].pc \in {"findOne", "findOneAndUpdate", "findByIdAndUpdate"}
    /\ stats' = IF req[r].isCompleted THEN StatsInc(stats, req[r].user) ELSE stats
    /\ req' = [req EXCEPT ![r] = [req[r] EXCEPT !.pc = "done", !.status = 200,
                                                !.awarded = req[r].isCompleted,
                                                !.wasAlreadyCompleted = FALSE,
                                                !.existingFound = FALSE]]
    /\ UNCHANGED <<users, courses, lessons, enrollments, progress, clock, everCompleted, serial, submissions, judge0>>

\* catch (err): a store call of the handler rejects; res.status(500)
updateLessonProgress_catch(r) ==
    /\ req[r].op = "updateLessonProgress"
    /\ req[r].pc \in {"findOne", "findOneAndUpdate", "findByIdAndUpdate"}
    /\ req' = [req EXCEPT ![r] = Respond(r, 500)]
    /\ UNCHANGED <<users, stats, courses, lessons, enrollments, progress, clock, everCompleted, serial, submissions, judge0>>

\* the requests clients holding Tokens send for the lessons Targets
updateLessonProgress(r, Tokens, Targets) ==
    \/ \E token \in Tokens, l \in Targets, target \in BOOLEAN :
            updateLessonProgress_request(r, token, l, target)
    \/ updateLessonProgress_findOne(r)
    \/ updateLessonProgress_findOneAndUpdate(r)
    \/ updateLessonProgress_findByIdAndUpdate(r)
    \/ updateLessonProgress_catch(r)

\* -------------------------------------------------------- Enrollment store
EnrollmentMatches(store, u, c) == {e \in store : e.userId = u /\ e.courseId = c}

\* mutant: the filter's fields are swapped
EnrollmentFindOne_Swapped(store, u, c) ==
    IF EnrollmentMatches(store, c, u) = {} THEN {}
    ELSE {CHOOSE e \in EnrollmentMatches(store, c, u) :
            \A q \in EnrollmentMatches(store, c, u) : e.id <= q.id}

\* Enrollment.findOne({userId, courseId}): the set holding the document found
EnrollmentFindOne(store, u, c) ==
    IF EnrollmentMatches(store, u, c) = {} THEN {}
    ELSE {CHOOSE e \in EnrollmentMatches(store, u, c) :
            \A q \in EnrollmentMatches(store, u, c) : e.id <= q.id}

\* mutant: the collection has no unique index
EnrollmentDuplicateKey_NoIndex(store, u, c) == FALSE

\* EnrollmentSchema.index({ userId: 1, courseId: 1 }, { unique: true }): does the insert
\* of a document for (u, c) violate the index (E11000)?
EnrollmentDuplicateKey(store, u, c) == EnrollmentMatches(store, u, c) # {}

\* Enrollment.create({ userId, courseId, lastAccessedAt: new Date() }); enrolledAt is the
\* creation timestamp
EnrollmentCreate(store, u, c, date, newId) ==
    store \cup {[id |-> newId, userId |-> u, courseId |-> c,
                 enrolledAt |-> date, lastAccessedAt |-> date]}

\* mutant: the touch is an upsert
EnrollmentTouch_Upsert(store, u, c, date) ==
    IF EnrollmentMatches(store, u, c) = {}
    THEN store \cup {[id |-> date, userId |-> u, courseId |-> c,
                      enrolledAt |-> date, lastAccessedAt |-> date]}
    ELSE {IF e.userId = u /\ e.courseId = c THEN [e EXCEPT !.lastAccessedAt = date] ELSE e
            : e \in store}

\* Enrollment.findOneAndUpdate({userId, courseId}, { lastAccessedAt: new Date() }): no upsert
EnrollmentTouch(store, u, c, date) ==
    {IF e \in EnrollmentFindOne(store, u, c) THEN [e EXCEPT !.lastAccessedAt = date] ELSE e
        : e \in store}

\* --------------------------------------------------- POST /users/enrollments
\* The request passes the authenticate middleware and the courseId validation.
enrollInCourse_request(r, token, c) ==
    /\ CanStart(r)
    /\ req' = [req EXCEPT ![r] =
                IF ~authenticate(token) THEN Rejected("enrollInCourse", 401)
                ELSE IF c = NoCourseId
                     THEN [Rejected("enrollInCourse", 400) EXCEPT !.user = token]
                ELSE [IdleReq EXCEPT !.op = "enrollInCourse", !.pc = "findOne",
                                     !.user = token, !.course = c, !.doneBefore = DoneSet,
                                     !.startStore = enrollments]]
    /\ UNCHANGED <<users, stats, courses, lessons, enrollments, progress, clock, everCompleted, serial, submissions, judge0>>

\* const existing = await Enrollment.findOne(...); if (existing) 409
enrollInCourse_findOne(r) ==
    /\ req[r].op = "enrollInCourse" /\ req[r].pc = "findOne"
    /\ req' = [req EXCEPT ![r] =
                IF EnrollmentFindOne(enrollments, req[r].user, req[r].course) # {}
                THEN [Respond(r, 409) EXCEPT !.existingFound = TRUE, !.endStore = enrollments]
                ELSE [req[r] EXCEPT !.pc = "create"]]
    /\ UNCHANGED <<users, stats, courses, lessons, enrollments, progress, clock, everCompleted, serial, submissions, judge0>>

\* const enrollment = await Enrollment.create(...): 201, or the unique index rejects the
\* insert and the catch block answers 500
enrollInCourse_create(r) ==
    /\ req[r].op = "enrollInCourse" /\ req[r].pc = "create"
    /\ IF EnrollmentDuplicateKey(enrollments, req[r].user, req[r].course)
       THEN /\ req' = [req EXCEPT ![r] = [Respond(r, 500) EXCEPT !.endStore = enrollments]]
            /\ UNCHANGED <<enrollments, clock>>
       ELSE /\ enrollments' = EnrollmentCreate(enrollments, req[r].user, req[r].course, clock, r)
            /\ clock' = clock + 1
            /\ req' = [req EXCEPT ![r] = [Respond(r, 201) EXCEPT !.endStore = enrollments']]
    /\ UNCHANGED <<users, stats, courses, lessons, progress, everCompleted, serial, submissions, judge0>>

enrollInCourse(r) ==
    \/ \E token \in Users \cup {NoToken}, c \in Courses \cup {NoCourseId} :
            enrollInCourse_request(r, token, c)
    \/ enrollInCourse_findOne(r)
    \/ enrollInCourse_create(r)

\* ------------------------------------------------------ GET /lessons/:lessonId
getLessonById_request(r, token, l) ==
    /\ CanStart(r)
    /\ req' = [req EXCEPT ![r] =
                IF ~authenticate(token) THEN Rejected("getLessonById", 401)
                ELSE [IdleReq EXCEPT !.op = "getLessonById", !.pc = "findById",
                                     !.user = token, !.lesson = l, !.doneBefore = DoneSet]]
    /\ UNCHANGED <<users, stats, courses, lessons, enrollments, progress, clock, everCompleted, serial, submissions, judge0>>

\* const lesson = await Lesson.findById(lessonId); if (!lesson) 404
getLessonById_findById(r) ==
    /\ req[r].op = "getLessonById" /\ req[r].pc = "findById"
    /\ req' = [req EXCEPT ![r] =
                IF \E x \in lessons : x.id = req[r].lesson
                THEN [req[r] EXCEPT !.pc = "findOneAndUpdate",
                                    !.course = (CHOOSE x \in lessons : x.id = req[r].lesson).courseId]
                ELSE Respond(r, 404)]
    /\ UNCHANGED <<users, stats, courses, lessons, enrollments, progress, clock, everCompleted, serial, submissions, judge0>>

\* await Enrollment.findOneAndUpdate({userId, courseId: lesson.courseId}, {lastAccessedAt}); 200
getLessonById_findOneAndUpdate(r) ==
    /\ req[r].op = "getLessonById" /\ req[r].pc = "findOneAndUpdate"
    /\ enrollments' = EnrollmentTouch(enrollments, req[r].user, req[r].course, clock)
    /\ clock' = clock + 1
    /\ req' = [req EXCEPT ![r] = Respond(r, 200)]
    /\ UNCHANGED <<users, stats, courses, lessons, progress, everCompleted, serial, submissions, judge0>>

getLessonById(r) ==
    \/ \E token \in Users \cup {NoToken}, l \in LessonIds : getLessonById_request(r, token, l)
    \/ getLessonById_findById(r)
    \/ getLessonById_findOneAndUpdate(r)

\* ------------------------------------------------- DELETE /courses/:courseId
\* Sent by an administrator, whose account is none of Users.
\* const course = await Course.findByIdAndDelete(courseId); if (!course) 404
deleteCourse_findByIdAndDelete(r, c) ==
    /\ CanStart(r)
    /\ IF c \in courses
       THEN /\ courses' = courses \ {c}
            /\ req' = [req EXCEPT ![r] =
                        [IdleReq EXCEPT !.op = "deleteCourse", !.pc = "deleteLessons",
                                        !.course = c, !.doneBefore = DoneSet]]
       ELSE /\ req' = [req EXCEPT ![r] = Rejected("deleteCourse", 404)]
            /\ UNCHANGED courses
    /\ UNCHANGED <<users, stats, lessons, enrollments, progress, clock, everCompleted, serial, submissions, judge0>>

\* await Lesson.deleteMany({ courseId })
deleteCourse_deleteLessons(r) ==
    /\ req[r].op = "deleteCourse" /\ req[r].pc = "deleteLessons"
    /\ lessons' = {x \in lessons : x.courseId # req[r].course}
    /\ req' = [req EXCEPT ![r].pc = "deleteEnrollments"]
    /\ UNCHANGED <<users, stats, courses, enrollments, progress, clock, everCompleted, serial, submissions, judge0>>

\* await Enrollment.deleteMany({ courseId }); 200
deleteCourse_deleteEnrollments(r) ==
    /\ req[r].op = "deleteCourse" /\ req[r].pc = "deleteEnrollments"
    /\ enrollments' = {e \in enrollments : e.courseId # req[r].course}
    /\ req' = [req EXCEPT ![r] = Respond(r, 200)]
    /\ UNCHANGED <<users, stats, courses, lessons, progress, clock, everCompleted, serial, submissions, judge0>>

deleteCourse(r) ==
    \/ \E c \in Courses : deleteCourse_findByIdAndDelete(r, c)
    \/ deleteCourse_deleteLessons(r)
    \/ deleteCourse_deleteEnrollments(r)

\* ------------------------------------------------- DELETE /lessons/:lessonId
\* Sent by an administrator or instructor.
\* const lesson = await Lesson.findByIdAndDelete(lessonId); if (!lesson) 404
deleteLesson_findByIdAndDelete(r, l) ==
    /\ CanStart(r)
    /\ IF \E x \in lessons : x.id = l
       THEN /\ lessons' = {x \in lessons : x.id # l}
            /\ req' = [req EXCEPT ![r] =
                        [IdleReq EXCEPT !.op = "deleteLesson", !.pc = "deleteChallenges",
                                        !.lesson = l, !.doneBefore = DoneSet]]
       ELSE /\ req' = [req EXCEPT ![r] = Rejected("deleteLesson", 404)]
            /\ UNCHANGED lessons
    /\ UNCHANGED <<users, stats, courses, enrollments, progress, clock, everCompleted, serial, submissions, judge0>>

\* await Challenge.deleteMany({ lessonId }): challenges are no part of the state
deleteLesson_deleteChallenges(r) ==
    /\ req[r].op = "deleteLesson" /\ req[r].pc = "deleteChallenges"
    /\ req' = [req EXCEPT ![r].pc = "deleteProgress"]
    /\ UNCHANGED <<users, stats, courses, lessons, enrollments, progress, clock, everCompleted, serial, submissions, judge0>>

\* await LessonProgress.deleteMany({ lessonId }); 200
deleteLesson_deleteProgress(r) ==
    /\ req[r].op = "deleteLesson" /\ req[r].pc = "deleteProgress"
    /\ progress' = {p \in progress : p.lessonId # req[r].lesson}
    /\ req' = [req EXCEPT ![r] = Respond(r, 200)]
    /\ UNCHANGED <<users, stats, courses, lessons, enrollments, clock, everCompleted, serial, submissions, judge0>>

deleteLesson(r, Targets) ==
    \/ \E l \in Targets : deleteLesson_findByIdAndDelete(r, l)
    \/ deleteLesson_deleteChallenges(r)
    \/ deleteLesson_deleteProgress(r)

\* ------------------------------------------------------- DELETE /users/:id
\* const user = await User.findByIdAndDelete(id); if (!user) 404
deleteUser_findByIdAndDelete(r, u) ==
    /\ CanStart(r)
    /\ IF u \in users
       THEN /\ users' = users \ {u}
            /\ req' = [req EXCEPT ![r] =
                        [IdleReq EXCEPT !.op = "deleteUser", !.pc = "deleteEnrollments",
                                        !.user = u, !.doneBefore = DoneSet]]
       ELSE /\ req' = [req EXCEPT ![r] = Rejected("deleteUser", 404)]
            /\ UNCHANGED users
    /\ UNCHANGED <<stats, courses, lessons, enrollments, progress, clock, everCompleted, serial, submissions, judge0>>

\* await Enrollment.deleteMany({ userId: id })
deleteUser_deleteEnrollments(r) ==
    /\ req[r].op = "deleteUser" /\ req[r].pc = "deleteEnrollments"
    /\ enrollments' = {e \in enrollments : e.userId # req[r].user}
    /\ req' = [req EXCEPT ![r].pc = "deleteProgress"]
    /\ UNCHANGED <<users, stats, courses, lessons, progress, clock, everCompleted, serial, submissions, judge0>>

\* await LessonProgress.deleteMany({ userId: id }); 200
deleteUser_deleteProgress(r) ==
    /\ req[r].op = "deleteUser" /\ req[r].pc = "deleteProgress"
    /\ progress' = {p \in progress : p.userId # req[r].user}
    /\ req' = [req EXCEPT ![r] = [req[r] EXCEPT !.pc = "done", !.status = 200]]
    /\ UNCHANGED <<users, stats, courses, lessons, enrollments, clock, everCompleted, serial, submissions, judge0>>

deleteUser(r) ==
    \/ \E u \in Users : deleteUser_findByIdAndDelete(r, u)
    \/ deleteUser_deleteEnrollments(r)
    \/ deleteUser_deleteProgress(r)

\* ------------------------------------------------ GET /courses/:courseId/syllabus
\* Lesson.find({ courseId }).sort({ orderIndex: 1 }): the ids in ascending orderIndex
RECURSIVE SortByOrderIndex(_)
SortByOrderIndex(S) ==
    IF S = {} THEN <<>>
    ELSE LET first == CHOOSE x \in S : \A y \in S :
                        \/ x.orderIndex < y.orderIndex
                        \/ (x.orderIndex = y.orderIndex /\ x.id <= y.id)
         IN  <<first.id>> \o SortByOrderIndex(S \ {first})

LessonFind(store, c) == SortByOrderIndex({x \in store : x.courseId = c})

SeqRange(q) == {q[i] : i \in 1..Len(q)}

\* LessonProgress.find({ userId, lessonId: { $in: lessons.map(l => l._id) } })
ProgressFind(store, u, lessonSeq) ==
    {p \in store : p.userId = u /\ p.lessonId \in SeqRange(lessonSeq)}

\* LessonProgress.countDocuments({ userId, lessonId: { $in }, isCompleted: true })
ProgressCountCompleted(store, u, lessonSeq) ==
    Cardinality({p \in ProgressFind(store, u, lessonSeq) : p.isCompleted})

\* JavaScript numbers are IEEE 754 binary64 values: a number is kept as m * 2^e, with the
\* significand m a sequence of bits, least significant first, of at most
\* SignificandBits bits after every operation (round to nearest, ties to even).
SignificandBits == 53
PERCENT_FACTOR == 100

\* The arithmetic below stays within 32-bit integers: a significand is handled in
\* chunks of ChunkWidth bits.
ChunkWidth == (SignificandBits + 1) \div 3

\* the number of bits of n, for 0 <= n < 2^30
BitLength(n) == CHOOSE k \in 0..30 : 2^k > n /\ (k = 0 \/ 2^(k - 1) <= n)

\* the lowest w bits of n
FixedBits(n, w) == [k \in 1..w |-> (n \div 2^(k - 1)) % 2]

BitsOf(n) == FixedBits(n, BitLength(n))

\* the value of at most 30 bits
RECURSIVE IntOf(_)
IntOf(bits) ==
    IF Len(bits) = 0 THEN 0
    ELSE IF Len(bits) = 1 THEN bits[1]
    ELSE LET h == Len(bits) \div 2
         IN  IntOf(SubSeq(bits, 1, h)) + 2^h * IntOf(SubSeq(bits, h + 1, Len(bits)))

Increment(bits) ==
    IF \A i \in DOMAIN bits : bits[i] = 1
    THEN [i \in 1..Len(bits) |-> 0] \o <<1>>
    ELSE LET z == CHOOSE i \in DOMAIN bits : bits[i] = 0 /\ \A j \in 1..(i - 1) : bits[j] = 1
         IN  [i \in 1..Len(bits) |-> IF i < z THEN 0 ELSE IF i = z THEN 1 ELSE bits[i]]

\* the exponent k with d * 2^k <= n < d * 2^(k + 1), for n >= d > 0
RECURSIVE ExponentAbove(_, _)
ExponentAbove(n, d) == IF n < 2 * d THEN 0 ELSE 1 + ExponentAbove(n, 2 * d)

\* the exponent k with d <= n * 2^k < 2 * d, for 0 < n < d
RECURSIVE ExponentBelow(_, _)
ExponentBelow(n, d) == IF n >= d THEN 0 ELSE 1 + ExponentBelow(2 * n, d)

RECURSIVE Scale(_, _)
Scale(n, k) == IF k = 0 THEN n ELSE Scale(2 * n, k - 1)

\* 2^i modulo d, for 0 <= i < 4 * ChunkWidth and 0 < d < 2^7
PowerMod(i, d) ==
    LET high == IF i < ChunkWidth THEN 1
                ELSE (((2^ChunkWidth) % d)^(i \div ChunkWidth)) % d
    IN  (high * ((2^(i % ChunkWidth)) % d)) % d

\* the remainder of long division of num by d after i steps: num * 2^i modulo d
Remainder(num, d, i) == (num * PowerMod(i, d)) % d

\* long division of num by d, for d <= num < 2 * d: the leading 1 and count more bits
\* of the quotient, least significant first, and the remainder left
QuotientBits(num, d, count) ==
    [bits |-> [k \in 1..(count + 1) |->
                    IF k = count + 1 THEN 1
                    ELSE (2 * Remainder(num, d, count - k)) \div d],
     rem |-> Remainder(num, d, count)]

\* n / d as a binary64 value, for n >= 0 and d > 0
FloatDivide(n, d) ==
    IF n = 0 THEN [m |-> <<>>, e |-> 0]
    ELSE LET up == IF n >= d THEN ExponentAbove(n, d) ELSE 0
             down == IF n >= d THEN 0 ELSE ExponentBelow(n, d)
             num == Scale(n, down)
             den == Scale(d, up)
             q == QuotientBits(num, den, SignificandBits - 1)
             roundUp == \/ 2 * q.rem > den
                        \/ (2 * q.rem = den /\ q.bits[1] = 1)
         IN  [m |-> IF roundUp THEN Increment(q.bits) ELSE q.bits,
              e |-> up - down - (SignificandBits - 1)]

\* the product of a significand and a small integer, exactly, chunk by chunk
RECURSIVE MultiplyBits(_, _, _)
MultiplyBits(bits, factor, carry) ==
    IF bits = <<>> THEN BitsOf(carry)
    ELSE LET w == IF Len(bits) < ChunkWidth THEN Len(bits) ELSE ChunkWidth
             v == IntOf(SubSeq(bits, 1, w)) * factor + carry
         IN  FixedBits(v % 2^w, w)
                \o MultiplyBits(SubSeq(bits, w + 1, Len(bits)), factor, v \div 2^w)

\* a value m * 2^e brought back to SignificandBits bits
FloatRound(x) ==
    LET drop == Len(x.m) - SignificandBits
    IN  IF drop <= 0 THEN x
        ELSE LET kept == SubSeq(x.m, drop + 1, Len(x.m))
                 roundUp == /\ x.m[drop] = 1
                            /\ \/ \E i \in 1..(drop - 1) : x.m[i] = 1
                               \/ kept[1] = 1
             IN  [m |-> IF roundUp THEN Increment(kept) ELSE kept, e |-> x.e + drop]

FloatMultiply(x, factor) == FloatRound([m |-> MultiplyBits(x.m, factor, 0), e |-> x.e])

\* Math.round of a value >= 0: the nearest integer, a half rounding up
MathRound(x) ==
    IF x.e >= 0 THEN IntOf([i \in 1..x.e |-> 0] \o x.m)
    ELSE LET n == 0 - x.e
             whole == IF n >= Len(x.m) THEN 0 ELSE IntOf(SubSeq(x.m, n + 1, Len(x.m)))
             half == IF n <= Len(x.m) THEN x.m[n] ELSE 0
         IN  whole + half

\* totalLessons > 0 ? Math.round((completedCount / totalLessons) * 100) : 0
Percent(completedCount, totalLessons) ==
    IF totalLessons > 0
    THEN MathRound(FloatMultiply(FloatDivide(completedCount, totalLessons), PERCENT_FACTOR))
    ELSE 0

\* progressMap.get(lessonId): the document progressDocs.forEach left under that key
ProgressMapGet(progressDocs, l) ==
    IF {p \in progressDocs : p.lessonId = l} = {} THEN {}
    ELSE {CHOOSE p \in progressDocs :
            p.lessonId = l /\ \A q \in progressDocs : q.lessonId = l => q.id <= p.id}

MapCompleted(progressDocs, l) == \E p \in ProgressMapGet(progressDocs, l) : p.isCompleted

\* mutant: a started lesson is reported like one never opened
lessonStatus_NoInProgress(lessonSeq, progressDocs, index) ==
    IF MapCompleted(progressDocs, lessonSeq[index]) THEN "COMPLETED"
    ELSE IF (IF index = 1 THEN TRUE ELSE MapCompleted(progressDocs, lessonSeq[index - 1]))
         THEN "UNLOCKED"
         ELSE "LOCKED"

\* mutant: a lesson unlocks on the completion of the lesson after it
lessonStatus_LooksAhead(lessonSeq, progressDocs, index) ==
    IF MapCompleted(progressDocs, lessonSeq[index]) THEN "COMPLETED"
    ELSE IF (IF index = Len(lessonSeq) THEN TRUE ELSE MapCompleted(progressDocs, lessonSeq[index + 1]))
         THEN (IF ProgressMapGet(progressDocs, lessonSeq[index]) # {} THEN "IN_PROGRESS" ELSE "UNLOCKED")
         ELSE "LOCKED"

\* the status of the lesson at position index (1 is the first) of an authenticated user
lessonStatus(lessonSeq, progressDocs, index) ==
    IF MapCompleted(progressDocs, lessonSeq[index]) THEN "COMPLETED"
    ELSE IF (IF index = 1 THEN TRUE ELSE MapCompleted(progressDocs, lessonSeq[index - 1]))
         THEN (IF ProgressMapGet(progressDocs, lessonSeq[index]) # {} THEN "IN_PROGRESS" ELSE "UNLOCKED")
         ELSE "LOCKED"

\* lessonsData = lessons.map((lesson, index) => ({ ..., status }))
lessonsData(lessonSeq, progressDocs) ==
    [index \in 1..Len(lessonSeq) |-> lessonStatus(lessonSeq, progressDocs, index)]

\* mutant: without req.user every lesson is open
lessonsDataAnonymous_AllUnlocked(lessonSeq) ==
    [index \in 1..Len(lessonSeq) |-> "UNLOCKED"]

\* the else branch, without req.user: status: index === 0 ? 'UNLOCKED' : 'LOCKED'
lessonsDataAnonymous(lessonSeq) ==
    [index \in 1..Len(lessonSeq) |-> IF index = 1 THEN "UNLOCKED" ELSE "LOCKED"]

\* The request passes (or fails) the authenticate middleware of the route.
getCourseSyllabus_request(r, token, c) ==
    /\ CanStart(r)
    /\ req' = [req EXCEPT ![r] =
                IF ~authenticate(token) THEN Rejected("getCourseSyllabus", 401)
                ELSE [IdleReq EXCEPT !.op = "getCourseSyllabus", !.pc = "findById",
                                     !.user = token, !.course = c, !.doneBefore = DoneSet]]
    /\ UNCHANGED <<users, stats, courses, lessons, enrollments, progress, clock, everCompleted, serial, submissions, judge0>>

\* The handler called as a function, with req.user as the caller sets it (NoToken:
\* undefined) and without the middleware of the route.
getCourseSyllabus_handler(r, user, c) ==
    /\ CanStart(r)
    /\ req' = [req EXCEPT ![r] =
                [IdleReq EXCEPT !.op = "getCourseSyllabus", !.pc = "findById",
                                !.user = user, !.course = c, !.doneBefore = DoneSet]]
    /\ UNCHANGED <<users, stats, courses, lessons, enrollments, progress, clock, everCompleted, serial, submissions, judge0>>

\* const course = await Course.findById(courseId); if (!course) 404
getCourseSyllabus_findById(r) ==
    /\ req[r].op = "getCourseSyllabus" /\ req[r].pc = "findById"
    /\ req' = [req EXCEPT ![r] =
                IF req[r].course \in courses THEN [req[r] EXCEPT !.pc = "find"]
                ELSE Respond(r, 404)]
    /\ UNCHANGED <<users, stats, courses, lessons, enrollments, progress, clock, everCompleted, serial, submissions, judge0>>

\* const lessons = await Lesson.find({ courseId }).sort({ orderIndex: 1 }); without
\* req.user the statuses follow at once, userProgress stays null, and 200
getCourseSyllabus_find(r) ==
    /\ req[r].op = "getCourseSyllabus" /\ req[r].pc = "find"
    /\ req' = [req EXCEPT ![r] =
                IF req[r].user # NoToken
                THEN [req[r] EXCEPT !.pc = "countDocuments",
                                    !.lessonSeq = LessonFind(lessons, req[r].course)]
                ELSE [Respond(r, 200) EXCEPT
                        !.lessonSeq = LessonFind(lessons, req[r].course),
                        !.result = lessonsDataAnonymous(LessonFind(lessons, req[r].course))]]
    /\ UNCHANGED <<users, stats, courses, lessons, enrollments, progress, clock, everCompleted, serial, submissions, judge0>>

\* const completedCount = await LessonProgress.countDocuments(...); userProgress.percent
getCourseSyllabus_countDocuments(r) ==
    /\ req[r].op = "getCourseSyllabus" /\ req[r].pc = "countDocuments"
    /\ req' = [req EXCEPT ![r].pc = "findProgress",
                          ![r].completedCount =
                                ProgressCountCompleted(progress, req[r].user, req[r].lessonSeq),
                          ![r].userProgress =
                                {Percent(ProgressCountCompleted(progress, req[r].user,
                                                                req[r].lessonSeq),
                                         Len(req[r].lessonSeq))}]
    /\ UNCHANGED <<users, stats, courses, lessons, enrollments, progress, clock, everCompleted, serial, submissions, judge0>>

\* const progressDocs = await LessonProgress.find(...); the statuses; 200
getCourseSyllabus_findProgress(r) ==
    /\ req[r].op = "getCourseSyllabus" /\ req[r].pc = "findProgress"
    /\ req' = [req EXCEPT ![r] =
                [Respond(r, 200) EXCEPT
                    !.result = lessonsData(req[r].lessonSeq,
                                           ProgressFind(progress, req[r].user, req[r].lessonSeq))]]
    /\ UNCHANGED <<users, stats, courses, lessons, enrollments, progress, clock, everCompleted, serial, submissions, judge0>>

getCourseSyllabus(r, Tokens, Cs) ==
    \/ \E token \in Tokens, c \in Cs : getCourseSyllabus_request(r, token, c)
    \/ getCourseSyllabus_findById(r)
    \/ getCourseSyllabus_find(r)
    \/ getCourseSyllabus_countDocuments(r)
    \/ getCourseSyllabus_findProgress(r)

\* ------------------------------------------------------- GET /users/dashboard
\* mutant: the enrollment accessed longest ago is taken
EnrollmentFindLatest_Oldest(store, u) ==
    {e \in store : /\ e.userId = u
                   /\ \A q \in store : q.userId = u => e.lastAccessedAt <= q.lastAccessedAt}

\* Enrollment.find({ userId }).sort({ lastAccessedAt: -1 }).limit(1): the documents the
\* query may return as the first one; the sort has no second key, so any of the
\* documents that share the latest lastAccessedAt can come first
EnrollmentFindLatest(store, u) ==
    {e \in store : /\ e.userId = u
                   /\ \A q \in store : q.userId = u => q.lastAccessedAt <= e.lastAccessedAt}

\* .populate('courseId'): the documents whose course still exists keep a courseId
Populated(found) == {e \in found : e.courseId \in courses}

\* res.status(200).json(success({ user, stats, quickResume }))
DashboardRespond(r, quickResume) ==
    [Respond(r, 200) EXCEPT !.quickResume = quickResume, !.userDoc = {}, !.index = 0,
                            !.lessonSeq = <<>>]

getDashboard_request(r, token) ==
    /\ CanStart(r)
    /\ req' = [req EXCEPT ![r] =
                IF ~authenticate(token) THEN Rejected("getDashboard", 401)
                ELSE [IdleReq EXCEPT !.op = "getDashboard", !.pc = "findById",
                                     !.user = token, !.doneBefore = DoneSet]]
    /\ UNCHANGED <<users, stats, courses, lessons, enrollments, progress, clock, everCompleted, serial, submissions, judge0>>

\* const user = await User.findById(req.user.id); if (!user) 404
getDashboard_findById(r) ==
    /\ req[r].op = "getDashboard" /\ req[r].pc = "findById"
    /\ req' = [req EXCEPT ![r] =
                IF req[r].user \in users
                THEN [req[r] EXCEPT !.pc = "findEnrollments", !.userDoc = {stats[req[r].user]}]
                ELSE Respond(r, 404)]
    /\ UNCHANGED <<users, stats, courses, lessons, enrollments, progress, clock, everCompleted, serial, submissions, judge0>>

\* const enrollments = await Enrollment.find(...).populate(...).sort(...).limit(1);
\* if (enrollments.length > 0 && enrollments[0].courseId) ... else quickResume stays null
getDashboard_findEnrollments(r) ==
    /\ req[r].op = "getDashboard" /\ req[r].pc = "findEnrollments"
    /\ LET found == EnrollmentFindLatest(enrollments, req[r].user)
       IN  IF found = {}
           THEN req' = [req EXCEPT ![r] = DashboardRespond(r, {})]
           ELSE \E e \in found :
                    req' = [req EXCEPT ![r] =
                             IF Populated({e}) = {} THEN DashboardRespond(r, {})
                             ELSE [req[r] EXCEPT !.pc = "findLessons",
                                                 !.course = e.courseId]]
    /\ UNCHANGED <<users, stats, courses, lessons, enrollments, progress, clock, everCompleted, serial, submissions, judge0>>

\* const lessons = await Lesson.find({ courseId: course._id }).sort({ orderIndex: 1 })
getDashboard_findLessons(r) ==
    /\ req[r].op = "getDashboard" /\ req[r].pc = "findLessons"
    /\ LET found == LessonFind(lessons, req[r].course)
       IN  req' = [req EXCEPT ![r] =
                    IF found = <<>> THEN DashboardRespond(r, {})
                    ELSE [req[r] EXCEPT !.pc = "findOneProgress", !.lessonSeq = found,
                                        !.index = 1]]
    /\ UNCHANGED <<users, stats, courses, lessons, enrollments, progress, clock, everCompleted, serial, submissions, judge0>>

\* for (const lesson of lessons): const progress = await LessonProgress.findOne(...);
\* if (!progress || !progress.isCompleted) { quickResume = ...; break }
getDashboard_findOneProgress(r) ==
    /\ req[r].op = "getDashboard" /\ req[r].pc = "findOneProgress"
    /\ LET lesson == req[r].lessonSeq[req[r].index]
           found == ProgressFindOne(progress, req[r].user, lesson)
       IN  req' = [req EXCEPT ![r] =
                    IF found = {} \/ \E p \in found : ~p.isCompleted
                    THEN DashboardRespond(r, {lesson})
                    ELSE IF req[r].index = Len(req[r].lessonSeq)
                         THEN DashboardRespond(r, {})
                         ELSE [req[r] EXCEPT !.index = req[r].index + 1]]
    /\ UNCHANGED <<users, stats, courses, lessons, enrollments, progress, clock, everCompleted, serial, submissions, judge0>>

getDashboard(r, Tokens) ==
    \/ \E token \in Tokens : getDashboard_request(r, token)
    \/ getDashboard_findById(r)
    \/ getDashboard_findEnrollments(r)
    \/ getDashboard_findLessons(r)
    \/ getDashboard_findOneProgress(r)

\* ------------------------------------------------------ GET /users/enrollments
getEnrollments_request(r, token) ==
    /\ CanStart(r)
    /\ req' = [req EXCEPT ![r] =
                IF ~authenticate(token) THEN Rejected("getEnrollments", 401)
                ELSE [IdleReq EXCEPT !.op = "getEnrollments", !.pc = "find",
                                     !.user = token, !.doneBefore = DoneSet]]
    /\ UNCHANGED <<users, stats, courses, lessons, enrollments, progress, clock, everCompleted, serial, submissions, judge0>>

\* const enrollments = await Enrollment.find({ userId }).populate('courseId'); an
\* enrollment whose course is gone is dropped (if (!course) return null)
getEnrollments_find(r) ==
    /\ req[r].op = "getEnrollments" /\ req[r].pc = "find"
    /\ req' = [req EXCEPT ![r].pc = "countDocuments",
                          ![r].enrollmentsData =
                                Populated({e \in enrollments : e.userId = req[r].user})]
    /\ UNCHANGED <<users, stats, courses, lessons, enrollments, progress, clock, everCompleted, serial, submissions, judge0>>

\* await Promise.all(enrollments.map(...)): the lesson and completion counts; 200
getEnrollments_countDocuments(r) ==
    /\ req[r].op = "getEnrollments" /\ req[r].pc = "countDocuments"
    /\ req' = [req EXCEPT ![r] =
                [Respond(r, 200) EXCEPT !.enrollmentsData =
                    {[courseId |-> e.courseId,
                      totalLessons |-> Len(LessonFind(lessons, e.courseId)),
                      completedLessons |-> ProgressCountCompleted(progress, req[r].user,
                                                LessonFind(lessons, e.courseId)),
                      lastAccessedAt |-> IF e.lastAccessedAt # NullDate
                                         THEN e.lastAccessedAt ELSE e.enrolledAt]
                        : e \in req[r].enrollmentsData}]]
    /\ UNCHANGED <<users, stats, courses, lessons, enrollments, progress, clock, everCompleted, serial, submissions, judge0>>

getEnrollments(r, Tokens) ==
    \/ \E token \in Tokens : getEnrollments_request(r, token)
    \/ getEnrollments_find(r)
    \/ getEnrollments_countDocuments(r)

\* ------------------------------------------------------------ PUT /users/:id
\* Sent by an administrator.  The body sets some of email, role and profileData.
UserPaths == {"email", "role", "profileData"}

\* mutant: save writes the whole document as it was loaded
UserSave_WholeDocument(st, u, doc, paths) ==
    [st EXCEPT ![u] = CHOOSE d \in doc : TRUE]

\* user.save(): the modified paths of the loaded document are written, the others are
\* left as the collection holds them
UserSave(st, u, doc, paths) ==
    IF "stats" \in paths THEN [st EXCEPT ![u] = CHOOSE d \in doc : TRUE] ELSE st

\* const user = await User.findById(id); if (!user) 404; an invalid role: 400
updateUser_findById(r, u, paths, roleValid) ==
    /\ CanStart(r)
    /\ req' = [req EXCEPT ![r] =
                IF u \notin users THEN Rejected("updateUser", 404)
                ELSE IF "role" \in paths /\ ~roleValid THEN Rejected("updateUser", 400)
                ELSE [IdleReq EXCEPT !.op = "updateUser", !.pc = "save", !.user = u,
                                     !.userDoc = {stats[u]}, !.paths = paths,
                                     !.doneBefore = DoneSet]]
    /\ UNCHANGED <<users, stats, courses, lessons, enrollments, progress, clock, everCompleted, serial, submissions, judge0>>

\* await user.save(): 200, or the document is gone and the catch block answers 500
updateUser_save(r) ==
    /\ req[r].op = "updateUser" /\ req[r].pc = "save"
    /\ IF req[r].user \in users
       THEN /\ stats' = UserSave(stats, req[r].user, req[r].userDoc, req[r].paths)
            /\ req' = [req EXCEPT ![r] =
                        [req[r] EXCEPT !.pc = "done", !.status = 200, !.userDoc = {},
                                       !.paths = {}]]
       ELSE /\ stats' = stats
            /\ req' = [req EXCEPT ![r] =
                        [req[r] EXCEPT !.pc = "done", !.status = 500, !.userDoc = {},
                                       !.paths = {}]]
    /\ UNCHANGED <<users, courses, lessons, enrollments, progress, clock, everCompleted, serial, submissions, judge0>>

updateUser(r) ==
    \/ \E u \in Users, paths \in {{}} \cup {{x} : x \in UserPaths}, roleValid \in BOOLEAN :
            updateUser_findById(r, u, paths, roleValid)
    \/ updateUser_save(r)

\* --------------------------------------------------- the judging service
\* Challenges are kept by plain CRUD and do not change here.  The first challenge has
\* NumCases test cases, the last of them hidden; the second has none.
ChallengeIds == {1, 2, 3}    \* the last one is in no collection
NoChallengeId == 0
NoLanguage == ""
TestCases == 1..NumCases

SeedChallenges ==
    {[id |-> 1, testCases |-> TestCases, hidden |-> {NumCases},
      starterCodes |-> {"python", "go"}],
     [id |-> 2, testCases |-> {}, hidden |-> {},
      starterCodes |-> {"python", "go"}]}

\* the languages GET /languages of the judging service lists
Judge0Languages == {"python", "cobol"}

Languages == {"python", "go", "cobol"}

\* Challenge.findById(challengeId)
ChallengeFindById(id) == {c \in SeedChallenges : c.id = id}

\* export enum Status
Status == {"PENDING", "RUNNING", "PASSED", "FAILED"}

\* mutant: a submission that did not pass every test case is left pending
SubmissionStatus_Pending(allPassed) == IF allPassed THEN "PASSED" ELSE "PENDING"

\* status: allPassed ? 'PASSED' : 'FAILED'
SubmissionStatus(allPassed) == IF allPassed THEN "PASSED" ELSE "FAILED"

\* Submission.create({ userId, challengeId, ..., status, metrics })
SubmissionCreate(store, u, c, status, newId) ==
    store \cup {[id |-> newId, userId |-> u, challengeId |-> c, status |-> status]}

\* an answer of the handler once the judging is over or has failed
ExecutionRespond(r, code, failed) ==
    [Respond(r, code) EXCEPT !.pending = {}, !.judgeFailed = failed]

\* ------------------------------------------------------ POST /execution/submit
\* The request passes authenticate and the validation of challengeId and language.
submitChallenge_request(r, token, c, language) ==
    /\ CanStart(r)
    /\ req' = [req EXCEPT ![r] =
                IF ~authenticate(token) THEN Rejected("submitChallenge", 401)
                ELSE IF c = NoChallengeId \/ language = NoLanguage
                     THEN [Rejected("submitChallenge", 400) EXCEPT !.user = token]
                ELSE [IdleReq EXCEPT !.op = "submitChallenge", !.pc = "findById",
                                     !.user = token, !.challenge = c, !.language = language,
                                     !.doneBefore = DoneSet]]
    /\ UNCHANGED <<users, stats, courses, lessons, enrollments, progress, clock, everCompleted, serial, submissions, judge0>>

\* const challenge = await Challenge.findById(challengeId): 404 without it, 400 without
\* starter code for the language or without test cases
submitChallenge_findById(r) ==
    /\ req[r].op = "submitChallenge" /\ req[r].pc = "findById"
    /\ LET found == ChallengeFindById(req[r].challenge)
       IN  req' = [req EXCEPT ![r] =
                    IF found = {} THEN Respond(r, 404)
                    ELSE IF \E c \in found : \/ req[r].language \notin c.starterCodes
                                             \/ c.testCases = {}
                         THEN Respond(r, 400)
                         ELSE [req[r] EXCEPT !.pc = "languages"]]
    /\ UNCHANGED <<users, stats, courses, lessons, enrollments, progress, clock, everCompleted, serial, submissions, judge0>>

\* const judge0Languages = await verifyJudge0Languages(url): the service answers; 404
\* when it does not know the language; then the test cases are posted all at once
submitChallenge_languages(r) ==
    /\ req[r].op = "submitChallenge" /\ req[r].pc = "languages"
    /\ judge0 = "up"
    /\ req' = [req EXCEPT ![r] =
                IF req[r].language \in Judge0Languages
                THEN [req[r] EXCEPT !.pc = "post",
                        !.pending = (CHOOSE c \in ChallengeFindById(req[r].challenge) : TRUE).testCases]
                ELSE Respond(r, 404)]
    /\ UNCHANGED <<users, stats, courses, lessons, enrollments, progress, clock, everCompleted, serial, submissions, judge0>>

\* axios.post(`${url}/submissions?wait=true`, ...) of one test case is answered
submitChallenge_post(r, t, passed) ==
    /\ req[r].op = "submitChallenge" /\ req[r].pc = "post"
    /\ judge0 = "up"
    /\ t \in req[r].pending
    /\ req' = [req EXCEPT ![r].pending = req[r].pending \ {t},
                          ![r].passedCount = req[r].passedCount + (IF passed THEN 1 ELSE 0),
                          ![r].pc = IF req[r].pending = {t} THEN "create" ELSE "post"]
    /\ UNCHANGED <<users, stats, courses, lessons, enrollments, progress, clock, everCompleted, serial, submissions, judge0>>

\* a call to the judging service is refused or answered with an error status: axios
\* rejects, and the catch block answers 500
submitChallenge_catch(r) ==
    /\ req[r].op = "submitChallenge" /\ req[r].pc \in {"languages", "post"}
    /\ judge0 = "up"
    /\ req' = [req EXCEPT ![r] = ExecutionRespond(r, 500, TRUE)]
    /\ UNCHANGED <<users, stats, courses, lessons, enrollments, progress, clock, everCompleted, serial, submissions, judge0>>

\* const submission = await Submission.create({...}); 200
submitChallenge_create(r) ==
    /\ req[r].op = "submitChallenge" /\ req[r].pc = "create"
    /\ LET total == Cardinality((CHOOSE c \in ChallengeFindById(req[r].challenge) : TRUE).testCases)
       IN  submissions' = SubmissionCreate(submissions, req[r].user, req[r].challenge,
                                SubmissionStatus(req[r].passedCount = total), r)
    /\ req' = [req EXCEPT ![r] = ExecutionRespond(r, 200, FALSE)]
    /\ UNCHANGED <<users, stats, courses, lessons, enrollments, progress, clock, everCompleted, serial, judge0>>

submitChallenge_steps(r) ==
    \/ submitChallenge_findById(r)
    \/ submitChallenge_languages(r)
    \/ \E t \in TestCases, passed \in BOOLEAN : submitChallenge_post(r, t, passed)
    \/ submitChallenge_create(r)

submitChallenge(r) ==
    \/ \E token \in Users \cup {NoToken}, c \in ChallengeIds \cup {NoChallengeId},
          language \in Languages \cup {NoLanguage} :
            submitChallenge_request(r, token, c, language)
    \/ submitChallenge_steps(r)
    \/ submitChallenge_catch(r)

\* --------------------------------------------------------- POST /execution/run
\* No authentication; the validation of challengeId and language.
runCode_request(r, c, language) ==
    /\ CanStart(r)
    /\ req' = [req EXCEPT ![r] =
                IF c = NoChallengeId \/ language = NoLanguage
                THEN Rejected("runCode", 400)
                ELSE [IdleReq EXCEPT !.op = "runCode", !.pc = "findById",
                                     !.challenge = c, !.language = language,
                                     !.doneBefore = DoneSet]]
    /\ UNCHANGED <<users, stats, courses, lessons, enrollments, progress, clock, everCompleted, serial, submissions, judge0>>

\* the test cases that are not hidden
PublicCases(c) == c.testCases \ c.hidden

\* const challenge = await Challenge.findById(challengeId): 404 without it, 400 without
\* public test cases
runCode_findById(r) ==
    /\ req[r].op = "runCode" /\ req[r].pc = "findById"
    /\ LET found == ChallengeFindById(req[r].challenge)
       IN  req' = [req EXCEPT ![r] =
                    IF found = {} THEN Respond(r, 404)
                    ELSE IF \E c \in found : PublicCases(c) = {} THEN Respond(r, 400)
                    ELSE [req[r] EXCEPT !.pc = "languages"]]
    /\ UNCHANGED <<users, stats, courses, lessons, enrollments, progress, clock, everCompleted, serial, submissions, judge0>>

\* const judge0Languages = await verifyJudge0Languages(url)
runCode_languages(r) ==
    /\ req[r].op = "runCode" /\ req[r].pc = "languages"
    /\ judge0 = "up"
    /\ req' = [req EXCEPT ![r] =
                IF req[r].language \in Judge0Languages
                THEN [req[r] EXCEPT !.pc = "post",
                        !.pending = PublicCases(CHOOSE c \in ChallengeFindById(req[r].challenge) : TRUE)]
                ELSE Respond(r, 404)]
    /\ UNCHANGED <<users, stats, courses, lessons, enrollments, progress, clock, everCompleted, serial, submissions, judge0>>

\* a post is answered; after the last one the handler answers 200 with the verdict
runCode_post(r, t, passed) ==
    /\ req[r].op = "runCode" /\ req[r].pc = "post"
    /\ judge0 = "up"
    /\ t \in req[r].pending
    /\ req' = [req EXCEPT ![r] =
                IF req[r].pending = {t}
                THEN [ExecutionRespond(r, 200, FALSE) EXCEPT
                        !.passedCount = req[r].passedCount + (IF passed THEN 1 ELSE 0)]
                ELSE [req[r] EXCEPT !.pending = req[r].pending \ {t},
                        !.passedCount = req[r].passedCount + (IF passed THEN 1 ELSE 0)]]
    /\ UNCHANGED <<users, stats, courses, lessons, enrollments, progress, clock, everCompleted, serial, submissions, judge0>>

\* a call to the judging service is refused: the catch block answers 500
runCode_catch(r) ==
    /\ req[r].op = "runCode" /\ req[r].pc \in {"languages", "post"}
    /\ judge0 = "up"
    /\ req' = [req EXCEPT ![r] = ExecutionRespond(r, 500, TRUE)]
    /\ UNCHANGED <<users, stats, courses, lessons, enrollments, progress, clock, everCompleted, serial, submissions, judge0>>

runCode_steps(r) ==
    \/ runCode_findById(r)
    \/ runCode_languages(r)
    \/ \E t \in TestCases, passed \in BOOLEAN : runCode_post(r, t, passed)

runCode(r) ==
    \/ \E c \in ChallengeIds \cup {NoChallengeId}, language \in Languages \cup {NoLanguage} :
            runCode_request(r, c, language)
    \/ runCode_steps(r)
    \/ runCode_catch(r)

\* ------------------------------------------------------------ POST /courses
\* Sent by an administrator or an instructor.  Ids are never issued twice: those of the
\* existing and of the deleted courses are used.
FreeCourseIds ==
    Courses \ (courses \cup {req[q].course : q \in {s \in Slots : req[s].op = "deleteCourse"}})

\* if (!title || !description) 400
createCourse_request(r, valid) ==
    /\ CanStart(r)
    /\ Cardinality(FreeCourseIds) >
            Cardinality({q \in Slots : req[q].op = "createCourse" /\ InFlight(q)})
    /\ req' = [req EXCEPT ![r] =
                IF ~valid THEN Rejected("createCourse", 400)
                ELSE [IdleReq EXCEPT !.op = "createCourse", !.pc = "create",
                                     !.doneBefore = DoneSet]]
    /\ UNCHANGED <<users, stats, courses, lessons, enrollments, progress, clock, everCompleted, serial, submissions, judge0>>

\* const course = await Course.create({...}); 201 with the new courseId
createCourse_create(r) ==
    /\ req[r].op = "createCourse" /\ req[r].pc = "create"
    /\ LET id == CHOOSE i \in FreeCourseIds : \A j \in FreeCourseIds : i <= j
       IN /\ courses' = courses \cup {id}
          /\ req' = [req EXCEPT ![r] =
                      [req[r] EXCEPT !.pc = "done", !.status = 201, !.course = id]]
    /\ UNCHANGED <<users, stats, lessons, enrollments, progress, clock, everCompleted, serial, submissions, judge0>>

createCourse(r) ==
    \/ \E valid \in BOOLEAN : createCourse_request(r, valid)
    \/ createCourse_create(r)

\* ------------------------------------------ POST /auth/register, POST /users
\* The e-mail addresses are not kept: whether the address of a request belongs to an
\* existing user is an input of the lookup and of the unique index.
\* stats: { streakDays: 0, totalXp: 0, lessonsCompleted: 0 }
NewUserStats == [totalXp |-> 0, lessonsCompleted |-> 0]

\* Ids are never issued twice: those of the existing and of the deleted users are used.
FreeIds ==
    Users \ (users \cup {req[q].user : q \in {s \in Slots : req[s].op = "deleteUser"}})

\* User.create({ ..., stats: { streakDays: 0, totalXp: 0, lessonsCompleted: 0 } })
UserCreate(st, id) == [st EXCEPT ![id] = NewUserStats]

\* validation: 400; const existingUser = await User.findOne({ email }); if found: 409;
\* const passwordHash = await bcrypt.hash(password, 10)
UserCreateLookup(r, op, valid, taken) ==
    /\ CanStart(r)
    /\ Cardinality(FreeIds) >
            Cardinality({q \in Slots : req[q].op \in {"register", "createUser"} /\ InFlight(q)})
    /\ taken => users # {}
    /\ req' = [req EXCEPT ![r] =
                IF ~valid THEN Rejected(op, 400)
                ELSE IF taken THEN Rejected(op, 409)
                ELSE [IdleReq EXCEPT !.op = op, !.pc = "create", !.doneBefore = DoneSet]]
    /\ UNCHANGED <<users, stats, courses, lessons, enrollments, progress, clock, everCompleted, serial, submissions, judge0>>

\* const user = await User.create(...): 201, or the unique index on email refuses an
\* address taken since the lookup and the catch block answers 500
UserCreateInsert(r, op, duplicate) ==
    /\ req[r].op = op /\ req[r].pc = "create"
    /\ duplicate => users # {}
    /\ IF duplicate
       THEN /\ req' = [req EXCEPT ![r] = [req[r] EXCEPT !.pc = "done", !.status = 500]]
            /\ UNCHANGED <<users, stats>>
       ELSE LET id == CHOOSE i \in FreeIds : \A j \in FreeIds : i <= j
            IN /\ users' = users \cup {id}
               /\ stats' = UserCreate(stats, id)
               /\ req' = [req EXCEPT ![r] =
                           [req[r] EXCEPT !.pc = "done", !.status = 201, !.user = id]]
    /\ UNCHANGED <<courses, lessons, enrollments, progress, clock, everCompleted, serial, submissions, judge0>>

register(r) ==
    \/ \E valid \in BOOLEAN, taken \in BOOLEAN : UserCreateLookup(r, "register", valid, taken)
    \/ \E duplicate \in BOOLEAN : UserCreateInsert(r, "register", duplicate)

createUser(r) ==
    \/ \E valid \in BOOLEAN, taken \in BOOLEAN : UserCreateLookup(r, "createUser", valid, taken)
    \/ \E duplicate \in BOOLEAN : UserCreateInsert(r, "createUser", duplicate)

\* ------------------------------------------------------------ initial state
\* A seeded catalog: the last lesson belongs to the second course, the others to the
\* first; the lessons of a course carry distinct orderIndex values, which run against
\* the order of creation.  Users are registered with zeroed stats.
SeedLessons ==
    {[id |-> l,
      courseId |-> IF l = NumLessons /\ NumCourses > 1 THEN 2 ELSE 1,
      orderIndex |-> NumLessons + 1 - l] : l \in LessonIds}

InitStores ==
    /\ users = Users
    /\ stats = [u \in Users |-> [totalXp |-> 0, lessonsCompleted |-> 0]]
    /\ courses = Courses
    /\ lessons = SeedLessons
    /\ enrollments = {}
    /\ progress = {}
    /\ req = [r \in Slots |-> IdleReq]
    /\ clock = 1
    /\ everCompleted = {}
    /\ submissions = {}

Init == InitStores /\ serial = FALSE /\ judge0 = "up"

InitSerial == InitStores /\ serial = TRUE /\ judge0 = "up"

\* Progress updates, overlapping.
AllTokens == Users \cup {NoToken}

NextProgress == \E r \in Slots : updateLessonProgress(r, AllTokens, TargetLessons)

SpecProgress == Init /\ [][NextProgress]_vars

\* Progress updates sent one after the other.
SpecSeqProgress == InitSerial /\ [][NextProgress]_vars

\* Enrollment requests, lesson views and the cascading deletions, overlapping.
NextEnroll ==
    \E r \in Slots : enrollInCourse(r) \/ getLessonById(r) \/ deleteCourse(r) \/ deleteUser(r)

SpecEnroll == Init /\ [][NextEnroll]_vars

\* The same requests sent one after the other.
SpecSeqEnroll == InitSerial /\ [][NextEnroll]_vars

\* One student works through the first course and looks at its syllabus, one request
\* after the other.
Student == CHOOSE u \in Users : \A v \in Users : u <= v
StudentCourse == CHOOSE c \in Courses : \A d \in Courses : c <= d
CourseLessons(c) == {x.id : x \in {y \in SeedLessons : y.courseId = c}}

NextSyllabus ==
    \E r \in Slots :
        \/ updateLessonProgress(r, {Student}, CourseLessons(StudentCourse))
        \/ getCourseSyllabus(r, {Student, NoToken}, {StudentCourse})

SpecSyllabus == InitSerial /\ [][NextSyllabus]_vars

\* The syllabus handler called as a function on a store at rest: every catalog that is
\* part of the seeded one with every progress map of the student over it, and courses
\* of up to MaxTotal lessons of which the student has completed the first few.
MaxTotal == 40

ComputeLessons(n) ==
    {[id |-> l, courseId |-> StudentCourse, orderIndex |-> n + 1 - l] : l \in 1..n}

ProgressOf(u, complete, started) ==
    {[id |-> l, userId |-> u, lessonId |-> l, isCompleted |-> l \in complete,
      completedAt |-> IF l \in complete THEN 1 ELSE NullDate] : l \in complete \cup started}

InitComputeStores(catalog, complete, started) ==
    /\ users = Users
    /\ stats = [u \in Users |->
                    IF u = Student
                    THEN [totalXp |-> XP_REWARD * Cardinality(complete),
                          lessonsCompleted |-> LESSON_INC * Cardinality(complete)]
                    ELSE [totalXp |-> 0, lessonsCompleted |-> 0]]
    /\ courses = Courses
    /\ lessons = catalog
    /\ enrollments = {}
    /\ progress = ProgressOf(Student, complete, started)
    /\ req = [r \in Slots |-> IdleReq]
    /\ clock = 2
    /\ everCompleted = {<<Student, l>> : l \in complete}
    /\ serial = TRUE
    /\ submissions = {}
    /\ judge0 = "up"

InitCompute ==
    \/ \E catalog \in SUBSET SeedLessons, complete \in SUBSET LessonIds :
            \E started \in SUBSET (LessonIds \ complete) :
                InitComputeStores(catalog, complete, started)
    \/ \E totalLessons \in 1..MaxTotal :
            \E completedCount \in 0..totalLessons :
                InitComputeStores(ComputeLessons(totalLessons), 1..completedCount, {})

FirstSlot == CHOOSE r \in Slots : \A q \in Slots : r <= q

NextCompute ==
    \/ \E user \in {Student, NoToken} : getCourseSyllabus_handler(FirstSlot, user, StudentCourse)
    \/ getCourseSyllabus_findById(FirstSlot)
    \/ getCourseSyllabus_find(FirstSlot)
    \/ getCourseSyllabus_countDocuments(FirstSlot)
    \/ getCourseSyllabus_findProgress(FirstSlot)

SpecCompute == InitCompute /\ [][NextCompute]_vars

\* The dashboard handler on a store at rest: the student is enrolled in any of the
\* courses, each last accessed at any of the times 1..NumCourses, over the seeded
\* catalog or the catalog without the lessons of one course, with every progress map.
EnrollmentsOf(u, accessed) ==
    {[id |-> c, userId |-> u, courseId |-> c, enrolledAt |-> 1,
      lastAccessedAt |-> accessed[c]] : c \in DOMAIN accessed}

InitDashboard ==
    \E enrolled \in SUBSET Courses, complete \in SUBSET LessonIds,
       emptied \in SUBSET Courses :
        \E accessed \in [enrolled -> Courses], started \in SUBSET (LessonIds \ complete) :
            /\ Cardinality(emptied) <= 1
            /\ users = Users
            /\ stats = [u \in Users |->
                            IF u = Student
                            THEN [totalXp |-> XP_REWARD * Cardinality(complete),
                                  lessonsCompleted |-> LESSON_INC * Cardinality(complete)]
                            ELSE [totalXp |-> 0, lessonsCompleted |-> 0]]
            /\ courses = Courses
            /\ lessons = {x \in SeedLessons : x.courseId \notin emptied}
            /\ enrollments = EnrollmentsOf(Student, accessed)
            /\ progress = ProgressOf(Student, complete, started)
            /\ req = [r \in Slots |-> IdleReq]
            /\ clock = NumCourses + 1
            /\ everCompleted = {<<Student, l>> : l \in complete}
            /\ serial = TRUE
            /\ submissions = {}
            /\ judge0 = "up"
    /\ submissions = {}
    /\ judge0 = "up"

NextDashboard == getDashboard(FirstSlot, {Student, NoToken})

SpecDashboard == InitDashboard /\ [][NextDashboard]_vars

\* The core endpoints with the dashboard, the enrollment list, the administrator's
\* user update and the deletions of a course and of a lesson: two requests that may
\* overlap in every way.
CorePair == {r \in Reqs : \A q \in Reqs : q < r => q = FirstSlot}

NextCore ==
    \E r \in CorePair :
        \/ updateLessonProgress(r, AllTokens, TargetLessons)
        \/ enrollInCourse(r)
        \/ getLessonById(r)
        \/ getDashboard(r, AllTokens)
        \/ getEnrollments(r, AllTokens)
        \/ getCourseSyllabus(r, AllTokens, Courses)
        \/ updateUser(r)
        \/ deleteCourse(r)
        \/ deleteLesson(r, TargetLessons)

SpecCore == Init /\ [][NextCore]_vars

\* Code execution: submissions and trial runs, overlapping, with a judging service that
\* answers or refuses every call, or one that has stopped answering.
InitExecution ==
    /\ InitStores /\ serial = FALSE
    /\ judge0 \in {"up", "silent"}

NextExecution == \E r \in CorePair : submitChallenge(r) \/ runCode(r)

SpecExecution == InitExecution /\ [][NextExecution]_vars

\* Every step of a handler that is possible is taken in the end: the database answers,
\* and so does a judging service that is up.  Nothing obliges a client to send a request
\* or the service to refuse a call.
SpecExecutionLive ==
    /\ SpecExecution
    /\ \A r \in CorePair : WF_vars(submitChallenge_steps(r)) /\ WF_vars(runCode_steps(r))

\* Progress updates and the cascading deletions of a lesson, a course and a user, one
\* request after the other.
NextCascade ==
    \E r \in Slots :
        \/ updateLessonProgress(r, {Student}, TargetLessons)
        \/ deleteLesson(r, TargetLessons)
        \/ deleteCourse(r)
        \/ deleteUser(r)

SpecSeqCascade == InitSerial /\ [][NextCascade]_vars

\* Accounts come and go while their owners work: registration, creation by an
\* administrator, progress updates, user updates and user deletion, two requests that
\* may overlap in every way.  The store starts with any of the accounts registered.
InitAccounts ==
    /\ users \in SUBSET Users
    /\ stats = [u \in Users |-> NewUserStats]
    /\ courses = Courses
    /\ lessons = SeedLessons
    /\ enrollments = {}
    /\ progress = {}
    /\ req = [r \in Slots |-> IdleReq]
    /\ clock = 1
    /\ everCompleted = {}
    /\ submissions = {}
    /\ serial = FALSE
    /\ judge0 = "up"

NextAccounts ==
    \E r \in CorePair :
        \/ register(r)
        \/ createUser(r)
        \/ updateLessonProgress(r, AllTokens, TargetLessons)
        \/ updateUser(r)
        \/ deleteUser(r)

SpecAccounts == InitAccounts /\ [][NextAccounts]_vars

\* The catalog changes while users enroll: enrollments, course creations and course
\* deletions, one request after the other.  The store starts with any of the courses
\* and their lessons.
InitCatalog ==
    /\ users = Users
    /\ stats = [u \in Users |-> NewUserStats]
    /\ courses \in SUBSET Courses
    /\ lessons = {x \in SeedLessons : x.courseId \in courses}
    /\ enrollments = {}
    /\ progress = {}
    /\ req = [r \in Slots |-> IdleReq]
    /\ clock = 1
    /\ everCompleted = {}
    /\ submissions = {}
    /\ serial = TRUE
    /\ judge0 = "up"

NextCatalog ==
    \E r \in Slots :
        \/ enrollInCourse(r)
        \/ createCourse(r)
        \/ deleteCourse(r)

SpecSeqCatalog == InitCatalog /\ [][NextCatalog]_vars

\* ==================================================================== claims
IsUpdate(r) == req[r].op = "updateLessonProgress" /\ req[r].user # NoToken

IsEnroll(r) == req[r].op = "enrollInCourse" /\ req[r].user # NoToken

SamePair(r1, r2) ==
    /\ req[r1].user = req[r2].user
    /\ req[r1].lesson = req[r2].lesson
    /\ req[r1].course = req[r2].course

Answered(r, code) == req[r].pc = "done" /\ req[r].status = code

Overlap(r1, r2) == r1 < r2 /\ Started(r2) /\ r1 \notin req[r2].doneBefore

Plus(s, d) == <<s[1] + d[1], s[2] + d[2]>>

OneAward == <<XP_REWARD, LESSON_INC>>

\* C1: two overlapping "mark complete" requests of a user for one lesson, sent while no
\* completed record exists and with no other request of that user, leave the user's
\* stats grown by exactly one award (50 XP, 1 lesson) once both are answered 200.
C1_RaceSafety ==
    \A r1 \in Reqs, r2 \in Reqs :
        ( /\ Overlap(r1, r2)
          /\ IsUpdate(r1) /\ IsUpdate(r2) /\ SamePair(r1, r2)
          /\ req[r1].isCompleted /\ req[r2].isCompleted
          /\ Answered(r1, 200) /\ Answered(r2, 200)
          /\ ~req[r1].startCompleted /\ ~req[r2].startCompleted
          /\ \A q \in Slots \ {r1, r2} : req[q].user # req[r1].user )
        => StatsOf(req[r1].user) = OneAward

\* C2: "mark complete" sent twice in sequence for the same (u, l), both answered 200 and
\* nothing else sent for that pair in between: the second request changes neither
\* counter, and when they are u's only requests the stats are exactly one award.
C2_IdempotentAward ==
    \A r1 \in SeqReqs, r2 \in SeqReqs :
        ( /\ r1 < r2 /\ r1 \in req[r2].doneBefore
          /\ IsUpdate(r1) /\ IsUpdate(r2) /\ SamePair(r1, r2)
          /\ req[r1].isCompleted /\ req[r2].isCompleted
          /\ Answered(r1, 200) /\ Answered(r2, 200)
          /\ \A q \in SeqReqs : (r1 < q /\ q < r2) => ~SamePair(q, r1) )
        => /\ req[r2].endStats = req[r2].startStats
           /\ ~req[r2].awarded
           /\ (\A q \in Slots \ {r1, r2} : req[q].user # req[r1].user)
                    => StatsOf(req[r1].user) = OneAward

C2_Witness ==
    /\ IsUpdate(1) /\ IsUpdate(2) /\ SamePair(1, 2)
    /\ req[1].isCompleted /\ req[2].isCompleted
    /\ Answered(1, 200) /\ Answered(2, 200) /\ 1 \in req[2].doneBefore
    /\ req[1].awarded /\ StatsOf(req[1].user) = OneAward

\* C3: a progress update that runs alone and is answered 200 adds 50 XP and 1 completed
\* lesson exactly when its target is true and the record persisted before the call was
\* absent or not completed; otherwise it leaves both counters as they were.
C3_AwardRule ==
    \A r \in SeqReqs :
        (IsUpdate(r) /\ Answered(r, 200))
        => req[r].endStats =
                IF req[r].isCompleted /\ ~req[r].startCompleted
                THEN Plus(req[r].startStats, OneAward)
                ELSE req[r].startStats

\* an awarded completion, a repeated completion and an un-completion have been answered
C3_Witness ==
    \E r1 \in SeqReqs, r2 \in SeqReqs, r3 \in SeqReqs :
        /\ IsUpdate(r1) /\ Answered(r1, 200)
        /\ req[r1].isCompleted /\ ~req[r1].startCompleted /\ req[r1].awarded
        /\ req[r1].endStats = Plus(req[r1].startStats, OneAward)
        /\ IsUpdate(r2) /\ Answered(r2, 200)
        /\ req[r2].isCompleted /\ req[r2].startCompleted /\ ~req[r2].awarded
        /\ IsUpdate(r3) /\ Answered(r3, 200)
        /\ ~req[r3].isCompleted /\ ~req[r3].awarded

\* C4: once the record of (u, l) has had isCompleted = true, no update of that pair sent
\* afterwards awards again.
C4_AwardOncePerPair ==
    \A r \in SeqReqs : (IsUpdate(r) /\ req[r].startEver) => ~req[r].awarded

\* C5: u completes l (answered 200, awarded) and next un-completes it (answered 200):
\* a record of (u, l) exists with isCompleted = false and u's stats are those the
\* completion left.
C5_UncompleteKeepsStats ==
    \A r1 \in SeqReqs :
        ( /\ r1 + 1 \in SeqReqs
          /\ IsUpdate(r1) /\ IsUpdate(r1 + 1) /\ SamePair(r1, r1 + 1)
          /\ req[r1].isCompleted /\ Answered(r1, 200) /\ req[r1].awarded
          /\ ~req[r1 + 1].isCompleted /\ Answered(r1 + 1, 200)
          /\ \A q \in SeqReqs : q > r1 + 1 => ~Started(q) )
        => /\ ProgressMatches(progress, req[r1].user, req[r1].lesson) # {}
           /\ \A p \in ProgressMatches(progress, req[r1].user, req[r1].lesson) :
                    ~p.isCompleted /\ p.completedAt = NullDate
           /\ StatsOf(req[r1].user) = req[r1].endStats
           /\ req[r1 + 1].endStats = req[r1].endStats

C5_Witness ==
    /\ IsUpdate(1) /\ IsUpdate(2) /\ SamePair(1, 2)
    /\ req[1].isCompleted /\ Answered(1, 200) /\ req[1].awarded
    /\ ~req[2].isCompleted /\ Answered(2, 200) /\ ~Started(3)
    /\ StatsOf(req[1].user) = OneAward

\* C6: an enrollment request for (u, c) sent after an earlier one for (u, c) was answered
\* 201, with no deletion of c or u sent in between, is answered 409 and leaves the
\* Enrollment collection as it found it, holding one record of (u, c).
C6_SecondEnrollConflict ==
    \A r1 \in SeqReqs, r2 \in SeqReqs :
        ( /\ r1 < r2 /\ r1 \in req[r2].doneBefore
          /\ IsEnroll(r1) /\ IsEnroll(r2) /\ SamePair(r1, r2)
          /\ Answered(r1, 201) /\ Done(r2)
          /\ \A q \in SeqReqs : (r1 < q /\ q < r2) =>
                /\ ~(req[q].op = "deleteCourse" /\ req[q].course = req[r1].course)
                /\ ~(req[q].op = "deleteUser" /\ req[q].user = req[r1].user) )
        => /\ req[r2].status = 409
           /\ req[r2].endStore = req[r2].startStore
           /\ Cardinality(EnrollmentMatches(req[r2].endStore, req[r1].user, req[r1].course)) = 1

C6_Witness ==
    /\ IsEnroll(1) /\ IsEnroll(2) /\ SamePair(1, 2)
    /\ Answered(1, 201) /\ Answered(2, 409) /\ 1 \in req[2].doneBefore

\* C7: two overlapping enrollment requests for the same pair (u, c), not enrolled before
\* and with no other request around, end with one answered 201 and the other 409.
C7_RaceWinnerAndConflict ==
    \A r1 \in Reqs, r2 \in Reqs :
        ( /\ Overlap(r1, r2)
          /\ IsEnroll(r1) /\ IsEnroll(r2) /\ SamePair(r1, r2)
          /\ Done(r1) /\ Done(r2)
          /\ EnrollmentMatches(req[r1].startStore, req[r1].user, req[r1].course) = {}
          /\ EnrollmentMatches(req[r2].startStore, req[r1].user, req[r1].course) = {}
          /\ \A q \in Slots \ {r1, r2} : ~Started(q) )
        => {req[r1].status, req[r2].status} = {201, 409}

\* C8: the Enrollment collection never holds two records of one (user, course) pair.
C8_EnrollmentUnique ==
    \A e1 \in enrollments, e2 \in enrollments :
        (e1.userId = e2.userId /\ e1.courseId = e2.courseId) => e1 = e2

\* both requests passed the existence check and the index turned the second insert away
C8_Witness ==
    \E r1 \in Reqs, r2 \in Reqs :
        /\ r1 # r2 /\ IsEnroll(r1) /\ IsEnroll(r2) /\ SamePair(r1, r2)
        /\ Answered(r1, 201) /\ Answered(r2, 500) /\ ~req[r2].existingFound
        /\ Cardinality(EnrollmentMatches(enrollments, req[r1].user, req[r1].course)) = 1

\* C9: the LessonProgress collection never holds two records of one (user, lesson) pair.
C9_ProgressUnique ==
    \A p1 \in progress, p2 \in progress :
        (p1.userId = p2.userId /\ p1.lessonId = p2.lessonId) => p1 = p2

\* two overlapping first-time upserts of one pair have both been applied
C9_Witness ==
    \E r1 \in Reqs, r2 \in Reqs :
        /\ Overlap(r1, r2) /\ IsUpdate(r1) /\ IsUpdate(r2) /\ SamePair(r1, r2)
        /\ Answered(r1, 200) /\ Answered(r2, 200)
        /\ ~req[r1].existingFound /\ ~req[r2].existingFound
        /\ Cardinality(ProgressMatches(progress, req[r1].user, req[r1].lesson)) = 1

\* the statuses the syllabus computes for u in c from a LessonProgress collection
StatusesOf(store, u, c) ==
    LET lessonSeq == LessonFind(lessons, c)
    IN  lessonsData(lessonSeq, ProgressFind(store, u, lessonSeq))

CompletedPositions(statuses) == {i \in DOMAIN statuses : statuses[i] = "COMPLETED"}

\* C10: when a step turns the progress of the lesson at position i of a course into
\* completed for user u, the syllabus status of every lesson at a position below i is
\* the same before and after the step (so none of them becomes LOCKED).
C10_UnlockMonotonic ==
    [][ progress' # progress =>
            \A u \in Users, c \in Courses :
                LET before == StatusesOf(progress, u, c)
                    after == StatusesOf(progress', u, c)
                IN  \A i \in CompletedPositions(after) \ CompletedPositions(before) :
                        \A j \in 1..(i - 1) : after[j] = before[j] ]_vars

\* the third lesson has been completed while the second one is LOCKED
C10_Witness ==
    \E r \in Slots : /\ req[r].op = "getCourseSyllabus" /\ Answered(r, 200)
                     /\ Len(req[r].result) >= 3
                     /\ req[r].result[3] = "COMPLETED" /\ req[r].result[2] = "LOCKED"

\* ------------------------------------------------------------ syllabus claims
IsSyllabus(r) == req[r].op = "getCourseSyllabus"

CourseRecords(c) == {x \in lessons : x.courseId = c}

\* the position of a lesson of a course in ascending orderIndex
Rank(x) == 1 + Cardinality({y \in CourseRecords(x.courseId) : y.orderIndex < x.orderIndex})

CountOf(statuses, v) == Cardinality({i \in DOMAIN statuses : statuses[i] = v})

AnonymousAnswer(r) == IsSyllabus(r) /\ Answered(r, 200) /\ req[r].user = NoToken

UserAnswer(r) == IsSyllabus(r) /\ Answered(r, 200) /\ req[r].user # NoToken

\* C11 (as stated): for an anonymous caller the syllabus computation returns, for every
\* lesson list, exactly one UNLOCKED lesson, the first in orderIndex order, and every
\* other lesson LOCKED, whatever progress is stored.
C11_AnonymousExactlyOneUnlocked ==
    \A r \in Slots :
        AnonymousAnswer(r)
        => /\ CountOf(req[r].result, "UNLOCKED") = 1
           /\ \A x \in CourseRecords(req[r].course) :
                    req[r].result[Rank(x)] = IF Rank(x) = 1 THEN "UNLOCKED" ELSE "LOCKED"

\* C11 (amended): for an anonymous caller the syllabus computation returns one status
\* per lesson of the course: for a course with at least one lesson the first in
\* orderIndex order is UNLOCKED and every other one LOCKED, for a course without
\* lessons the list is empty (no UNLOCKED at all); userProgress is null, whatever
\* progress is stored.
C11_AnonymousFirstUnlocked ==
    \A r \in Slots :
        AnonymousAnswer(r)
        => /\ Len(req[r].result) = Cardinality(CourseRecords(req[r].course))
           /\ CountOf(req[r].result, "UNLOCKED")
                    = IF CourseRecords(req[r].course) = {} THEN 0 ELSE 1
           /\ \A x \in CourseRecords(req[r].course) :
                    req[r].result[Rank(x)] = IF Rank(x) = 1 THEN "UNLOCKED" ELSE "LOCKED"
           /\ req[r].userProgress = {}

\* an anonymous answer over three lessons while completed progress is stored for them
C11_Witness ==
    \E r \in Slots :
        /\ AnonymousAnswer(r)
        /\ req[r].result = <<"UNLOCKED", "LOCKED", "LOCKED">>
        /\ \E p \in progress : p.isCompleted /\ p.lessonId \in SeqRange(req[r].lessonSeq)

ExpectedStatus(u, x) ==
    LET exists(l) == \E p \in progress : p.userId = u /\ p.lessonId = l
        completed(l) == \E p \in progress : p.userId = u /\ p.lessonId = l /\ p.isCompleted
        previous == {y \in CourseRecords(x.courseId) :
                        /\ y.orderIndex < x.orderIndex
                        /\ \A z \in CourseRecords(x.courseId) :
                                ~(y.orderIndex < z.orderIndex /\ z.orderIndex < x.orderIndex)}
    IN  IF completed(x.id) THEN "COMPLETED"
        ELSE IF previous = {} \/ \E y \in previous : completed(y.id)
             THEN (IF exists(x.id) THEN "IN_PROGRESS" ELSE "UNLOCKED")
             ELSE "LOCKED"

\* C13: for an authenticated user the syllabus lists the lessons of the course in
\* ascending orderIndex and gives each: COMPLETED if its record is completed; else, if
\* it is the first or the lesson right before it is completed, IN_PROGRESS when it has
\* a record and UNLOCKED when it has none; else LOCKED.
C13_StatusRule ==
    \A r \in Slots :
        UserAnswer(r)
        => /\ Len(req[r].result) = Cardinality(CourseRecords(req[r].course))
           /\ \A x \in CourseRecords(req[r].course) :
                    /\ req[r].lessonSeq[Rank(x)] = x.id
                    /\ req[r].result[Rank(x)] = ExpectedStatus(req[r].user, x)

\* three lessons of which only the first is completed
C13_Witness ==
    \E r \in Slots :
        /\ UserAnswer(r)
        /\ req[r].result = <<"COMPLETED", "UNLOCKED", "LOCKED">>
        /\ req[r].userProgress = {33}

\* C14: the percentage of an authenticated syllabus is round(100 * completedCount /
\* totalLessons), a half rounding up, 0 for a course without lessons, and lies in
\* 0..100; completedCount counts the user's completed records of lessons of the course.
C14_PercentRounded ==
    \A r \in Slots :
        UserAnswer(r)
        => LET totalLessons == Cardinality(CourseRecords(req[r].course))
               completedCount == Cardinality(
                    {p \in progress : /\ p.userId = req[r].user /\ p.isCompleted
                                      /\ \E x \in CourseRecords(req[r].course) : x.id = p.lessonId})
           IN  /\ req[r].userProgress =
                    {IF totalLessons = 0 THEN 0
                     ELSE (200 * completedCount + totalLessons) \div (2 * totalLessons)}
               /\ req[r].userProgress \subseteq 0..100

\* --------------------------------------------- enrollment and failure claims
LessonCourse(l) == (CHOOSE x \in lessons : x.id = l).courseId

\* C15: a progress update of a user who has no Enrollment in the lesson's course creates
\* no LessonProgress record and changes no stats.
C15_EnrollmentVerified ==
    \A r \in SeqReqs :
        ( /\ IsUpdate(r) /\ Done(r)
          /\ EnrollmentMatches(enrollments, req[r].user, LessonCourse(req[r].lesson)) = {} )
        => /\ ProgressMatches(progress, req[r].user, req[r].lesson) = {}
           /\ ~req[r].awarded
           /\ req[r].endStats = req[r].startStats

EnrollmentIdentity(e) ==
    [id |-> e.id, userId |-> e.userId, courseId |-> e.courseId, enrolledAt |-> e.enrolledAt]

\* C16: the step in which a lesson view of an authenticated user touches the Enrollment
\* collection answers 200; it leaves the collection as it is when the user has no
\* enrollment in the lesson's course, and otherwise changes nothing but lastAccessedAt
\* of that enrollment; no other step of a lesson view changes the collection.
C16_TouchOnly ==
    [][ \A r \in Slots :
            (req[r].op = "getLessonById" /\ req'[r] # req[r])
            => IF req[r].pc = "findOneAndUpdate"
               THEN /\ req'[r].pc = "done" /\ req'[r].status = 200
                    /\ EnrollmentMatches(enrollments, req[r].user, req[r].course) = {}
                            => enrollments' = enrollments
                    /\ Cardinality(enrollments') = Cardinality(enrollments)
                    /\ {EnrollmentIdentity(e) : e \in enrollments'}
                            = {EnrollmentIdentity(e) : e \in enrollments}
                    /\ \A e \in enrollments' :
                            (e.userId # req[r].user \/ e.courseId # req[r].course)
                            => e \in enrollments
               ELSE enrollments' = enrollments ]_vars

\* a view by a user without enrollment in the lesson's course was answered 200, and a
\* view has moved lastAccessedAt of an enrollment past its enrolledAt
C16_Witness ==
    /\ \E r \in Slots :
            /\ req[r].op = "getLessonById" /\ Answered(r, 200)
            /\ \A q \in SeqReqs : (IsEnroll(q) /\ Started(q)) => req[q].course # req[r].course
    /\ \E r \in Slots, e \in enrollments :
            /\ req[r].op = "getLessonById" /\ Answered(r, 200)
            /\ e.userId = req[r].user /\ e.courseId = req[r].course
            /\ e.lastAccessedAt > e.enrolledAt

\* C20: when the upsert of a progress update fails (the step from the upsert ends the
\* request without success) the stats and the collection stay as they are, the answer
\* is 500 and nothing is awarded; and a request that leaves the upsert step with 200 or
\* towards the award has its record stored with the requested isCompleted.
C20_UpsertFailureAborts ==
    [][ \A r \in Slots :
            (req[r].op = "updateLessonProgress" /\ req[r].pc = "findOneAndUpdate"
                /\ req'[r] # req[r])
            => IF req'[r].pc = "done" /\ req'[r].status # 200
               THEN /\ stats' = stats /\ progress' = progress
                    /\ req'[r].status = 500 /\ ~req'[r].awarded
               ELSE /\ \E p \in ProgressMatches(progress', req[r].user, req[r].lesson) :
                            p.isCompleted = req[r].isCompleted
                    /\ stats' = stats ]_vars

\* a completion that found the record of its pair not completed (so its read passed)
\* and was answered 500 with the record still not completed (so its upsert failed):
\* nothing was awarded
C20_Witness ==
    \E r \in Slots :
        /\ IsUpdate(r) /\ Answered(r, 500) /\ req[r].existingFound
        /\ req[r].isCompleted /\ ~req[r].startCompleted /\ ~req[r].awarded
        /\ \E p \in ProgressMatches(progress, req[r].user, req[r].lesson) : ~p.isCompleted
        /\ \A q \in Slots \ {r} : Started(q) => q \in req[r].doneBefore
        /\ StatsOf(req[r].user) = req[r].startStats

\* The user's enrollments that share the most recent lastAccessedAt.
MostRecent(u) ==
    {e \in enrollments : /\ e.userId = u
                         /\ \A q \in enrollments :
                                q.userId = u => q.lastAccessedAt <= e.lastAccessedAt}

\* The lessons of course c the user has not completed: no record, or isCompleted = false.
Unfinished(u, c) ==
    {x \in CourseRecords(c) :
        \A p \in progress : p.userId = u /\ p.lessonId = x.id => ~p.isCompleted}

\* The first unfinished lesson of course c in ascending orderIndex, {} if there is none.
FirstUnfinished(u, c) ==
    {x.id : x \in {y \in Unfinished(u, c) :
                    \A z \in Unfinished(u, c) : y.orderIndex <= z.orderIndex}}

IsDashboard(r) == req[r].op = "getDashboard" /\ req[r].user # NoToken

\* C17: a dashboard request of an existing user is answered 200; quickResume is null
\* when the user has no enrollment, and otherwise it is, for an enrollment with the most
\* recent lastAccessedAt, the first lesson of that course in ascending orderIndex that
\* has no progress record or a record with isCompleted = false.
C17_QuickResume ==
    \A r \in Slots :
        IsDashboard(r) /\ Done(r) =>
            /\ req[r].status = 200
            /\ IF MostRecent(req[r].user) = {}
               THEN req[r].quickResume = {}
               ELSE \E e \in MostRecent(req[r].user) :
                        req[r].quickResume = FirstUnfinished(req[r].user, e.courseId)

\* Two enrollments, the later accessed one in a course whose first lesson is completed
\* and whose second is not: the second lesson is returned.
C17_Witness ==
    \E r \in Slots :
        /\ IsDashboard(r) /\ Answered(r, 200)
        /\ Cardinality({e \in enrollments : e.userId = req[r].user}) > 1
        /\ Cardinality(MostRecent(req[r].user)) = 1
        /\ \E e \in MostRecent(req[r].user) :
                /\ e.courseId = StudentCourse
                /\ req[r].quickResume # {}
                /\ req[r].quickResume = FirstUnfinished(req[r].user, e.courseId)
                /\ \E x \in CourseRecords(e.courseId) :
                        /\ \A y \in CourseRecords(e.courseId) : x.orderIndex <= y.orderIndex
                        /\ x.id \notin req[r].quickResume

\* ------------------------------------------------- authentication and stats frame
\* The bearer-auth endpoints of the core: PUT /users/progress/:lessonId,
\* GET /users/dashboard, GET /users/enrollments, POST /users/enrollments.
CoreOps == {"updateLessonProgress", "getDashboard", "getEnrollments", "enrollInCourse"}

Arrives(r) == req[r].pc = "idle" /\ req'[r].pc # "idle"

\* C18: the step in which a request to a bearer-auth endpoint of the core arrives without
\* a valid bearer token answers it 401 (the error envelope, success = false) and changes
\* no stored state: no user, stats, course, lesson, enrollment or progress record.
C18_NoTokenUnauthorized ==
    [][ \A r \in Slots :
            (Arrives(r) /\ req'[r].op \in CoreOps /\ req'[r].user = NoToken)
            => /\ req'[r].pc = "done" /\ req'[r].status = 401
               /\ UNCHANGED <<users, stats, courses, lessons, enrollments, progress>> ]_vars

\* a request without token was answered 401 while a progress update that went on to
\* its award was in flight
C18_Witness ==
    \E r \in Slots, q \in Slots :
        /\ req[r].op \in CoreOps /\ req[r].user = NoToken /\ Answered(r, 401)
        /\ IsUpdate(q) /\ req[q].awarded
        /\ q < r /\ q \notin req[r].doneBefore
        /\ progress # {}

Moves(r) == req'[r] # req[r]

AwardStep(r) ==
    /\ req[r].op = "updateLessonProgress" /\ req[r].pc = "findByIdAndUpdate"
    /\ req'[r].awarded
    /\ stats' = [stats EXCEPT ![req[r].user] =
                    [totalXp |-> stats[req[r].user].totalXp + XP_REWARD,
                     lessonsCompleted |-> stats[req[r].user].lessonsCompleted + LESSON_INC]]

\* C19: a step changes User.stats only if it is the award step of a progress update;
\* every step of enrollInCourse, getLessonById, getDashboard, getEnrollments,
\* getCourseSyllabus, the administrator's updateUser, deleteCourse and deleteLesson
\* leaves the stats of every user as they are, and no step of getDashboard changes any
\* store.
C19_StatsFrame ==
    [][ /\ stats' # stats => \E r \in Slots : Moves(r) /\ AwardStep(r)
        /\ \A r \in Slots :
                (Moves(r) /\ req'[r].op # "updateLessonProgress") => stats' = stats
        /\ \A r \in Slots :
                (Moves(r) /\ req'[r].op = "getDashboard")
                => UNCHANGED <<users, stats, courses, lessons, enrollments, progress,
                               submissions>> ]_vars

\* an administrator's update of a user was answered 200 after it overlapped a progress
\* update of that user that was awarded, and the user's stats are exactly the award
C19_Witness ==
    \E r \in Slots, q \in Slots :
        /\ req[r].op = "updateUser" /\ Answered(r, 200)
        /\ IsUpdate(q) /\ req[q].awarded /\ req[q].user = req[r].user
        /\ q < r /\ q \notin req[r].doneBefore
        /\ StatsOf(req[r].user) = OneAward

\* ------------------------------------------------------- failure and retry
\* the requests for the pair of r sent after r
LaterOnPair(r) == {q \in SeqReqs : q > r /\ IsUpdate(q) /\ SamePair(q, r)}

FirstOnPair(r) == \A q \in SeqReqs : (q < r /\ IsUpdate(q)) => ~SamePair(q, r)

\* whether the record of r's pair was completed when r, sent serially, had ended
CompletedAtEnd(r) ==
    IF LaterOnPair(r) = {}
    THEN PersistedCompleted(req[r].user, req[r].lesson)
    ELSE req[CHOOSE q \in LaterOnPair(r) : \A p \in LaterOnPair(r) : q <= p].startCompleted

\* r, the first request for its pair, asked for completion, upserted the completed
\* record and failed before the stats increment
CrashedBeforeAward(r) ==
    /\ IsUpdate(r) /\ FirstOnPair(r)
    /\ req[r].isCompleted /\ ~req[r].startCompleted
    /\ Answered(r, 500) /\ CompletedAtEnd(r)

AwardsOnPair(r) == {q \in {r} \cup LaterOnPair(r) : req[q].awarded}

\* C21: a completing update of (u, l) fails after the progress upsert and before the
\* stats increment, and the client retries the same request, one after the other, any
\* number of times: at most one of these requests awards, and when u sent nothing else
\* u's stats are at most 50 XP and 1 completed lesson.
C21_RetryNoDoubleAward ==
    \A r \in SeqReqs :
        ( /\ CrashedBeforeAward(r)
          /\ \A q \in LaterOnPair(r) : req[q].isCompleted )
        => /\ Cardinality(AwardsOnPair(r)) <= 1
           /\ (\A q \in SeqReqs : IsUpdate(q) /\ req[q].user = req[r].user
                                        => q \in {r} \cup LaterOnPair(r))
                => /\ stats[req[r].user].totalXp <= XP_REWARD
                   /\ stats[req[r].user].lessonsCompleted <= LESSON_INC

\* the first request failed before the award and two retries have been answered 200
C21_Witness ==
    \E r \in SeqReqs :
        /\ CrashedBeforeAward(r)
        /\ Cardinality(LaterOnPair(r)) > 1
        /\ \A q \in LaterOnPair(r) : req[q].isCompleted /\ Answered(q, 200)

\* ------------------------------------------------------------ code execution
IsSubmit(r) == req[r].op = "submitChallenge" /\ req[r].user # NoToken

SubmissionsOf(r) == {s \in submissions : s.id = r}

\* C22: every Submission record has status PASSED or FAILED, PASSED exactly when every
\* test case passed; a submitChallenge request one of whose calls to the judging service
\* failed is answered 500 and has created no record, a request whose call is not
\* answered has created none, and a record exists only for a request answered 200.
C22_TerminalOrNothing ==
    /\ \A s \in submissions : s.status \in {"PASSED", "FAILED"}
    /\ \A r \in Slots :
            IsSubmit(r) =>
                /\ req[r].judgeFailed => (Answered(r, 500) /\ SubmissionsOf(r) = {})
                /\ (judge0 = "silent" \/ ~Answered(r, 200)) => SubmissionsOf(r) = {}
                /\ \A s \in SubmissionsOf(r) :
                        /\ s.userId = req[r].user /\ s.challengeId = req[r].challenge
                        /\ s.status = "PASSED" <=> req[r].passedCount = NumCases

\* one submission is recorded FAILED, and another request lost a call to the judging
\* service after a test case had passed and left no record
C22_Witness ==
    \E r \in Slots, q \in Slots :
        /\ IsSubmit(r) /\ Answered(r, 200)
        /\ \E s \in SubmissionsOf(r) : s.status = "FAILED"
        /\ IsSubmit(q) /\ req[q].judgeFailed /\ req[q].passedCount > 0
        /\ Answered(q, 500) /\ SubmissionsOf(q) = {}

\* C23: every runCode and submitChallenge request that has reached its handler is
\* answered in the end, whether or not the judging service answers.
C23_BoundedWait ==
    \A r \in CorePair :
        (req[r].op \in {"runCode", "submitChallenge"} /\ Started(r)) ~> Done(r)

\* ------------------------------------------------------ progress state machine
\* the progress state of the pair (u, l) in a LessonProgress collection
ProgressState(store, u, l) ==
    IF ProgressMatches(store, u, l) = {} THEN "NOT_STARTED"
    ELSE IF \E p \in ProgressMatches(store, u, l) : p.isCompleted THEN "COMPLETED"
    ELSE "IN_PROGRESS"

ListedTransitions ==
    {<<"NOT_STARTED", "IN_PROGRESS">>, <<"IN_PROGRESS", "COMPLETED">>,
     <<"COMPLETED", "IN_PROGRESS">>, <<"IN_PROGRESS", "IN_PROGRESS">>,
     <<"COMPLETED", "COMPLETED">>}

Untouched == {<<"NOT_STARTED", "NOT_STARTED">>}

Cascades == {"deleteLesson", "deleteCourse", "deleteUser"}

\* every step of a progress update moves every pair by a transition of Allowed, and a
\* pair goes back to NOT_STARTED only in a step of a cascading delete
TransitionsWithin(Allowed) ==
    \A r \in Slots : \A u \in Users, l \in LessonIds :
        Moves(r) =>
            /\ req'[r].op = "updateLessonProgress"
                    => <<ProgressState(progress, u, l), ProgressState(progress', u, l)>>
                            \in Allowed \cup Untouched
            /\ ( /\ ProgressState(progress, u, l) # "NOT_STARTED"
                 /\ ProgressState(progress', u, l) = "NOT_STARTED" )
                    => req'[r].op \in Cascades

\* C24 (as stated): under updateLessonProgress the progress state of a pair changes only
\* by NOT_STARTED->IN_PROGRESS, IN_PROGRESS->COMPLETED, COMPLETED->IN_PROGRESS and the
\* self-loops of IN_PROGRESS and COMPLETED; it returns to NOT_STARTED only through a
\* cascading delete.
C24_ListedTransitionsOnly == [][TransitionsWithin(ListedTransitions)]_vars

\* C24 (amended): the same with the transition NOT_STARTED->COMPLETED added, taken by a
\* completing update of a pair that has no record.
C24_TransitionsWithDirectCompletion ==
    [][TransitionsWithin(ListedTransitions \cup {<<"NOT_STARTED", "COMPLETED">>})]_vars

\* a completing update, the only request sent for its pair, found no record and left a
\* completed one
C24_Witness ==
    \E r \in Slots :
        /\ IsUpdate(r) /\ Answered(r, 200) /\ req[r].isCompleted
        /\ ~req[r].existingFound /\ ~req[r].startCompleted /\ req[r].awarded
        /\ \A q \in Slots \ {r} : ~Started(q)
        /\ ProgressState(progress, req[r].user, req[r].lesson) = "COMPLETED"

\* ------------------------------------------------------------ cascading deletes
\* the request sent last has been answered 200
LastAnswered(r) == Answered(r, 200) /\ \A q \in Slots : q > r => ~Started(q)

\* the LessonProgress records that reference what the deletion r removed
Orphans(r) ==
    {p \in progress :
        \/ req[r].op = "deleteLesson" /\ p.lessonId = req[r].lesson
        \/ req[r].op = "deleteUser" /\ p.userId = req[r].user
        \/ req[r].op = "deleteCourse" /\ p.lessonId \in CourseLessons(req[r].course)}

\* C25: once a deleteLesson, deleteCourse or deleteUser has been answered 200 and nothing
\* else is in flight or was sent since, no LessonProgress record references the lesson
\* or the user it removed, nor a lesson of the course it removed.
C25_CascadeComplete ==
    \A r \in SeqReqs :
        (req[r].op \in Cascades /\ LastAnswered(r)) => Orphans(r) = {}

\* ---------------------------------------------------------------------- C26
IsCreation(r) == req[r].op \in {"register", "createUser"} /\ Done(r) /\ req[r].status = 201

StatsCoupled(u) == stats[u].totalXp = XP_REWARD * stats[u].lessonsCompleted

\* C26: the stats of every user created by register or createUser satisfy
\* totalXp = 50 * lessonsCompleted in every reachable state, and neither counter of an
\* existing user ever decreases, whatever requests overlap.
C26_StatsCoupled ==
    /\ [](\A u \in users : StatsCoupled(u))
    /\ [][\A u \in users \cap users' :
              /\ stats'[u].totalXp >= stats[u].totalXp
              /\ stats'[u].lessonsCompleted >= stats[u].lessonsCompleted]_vars

\* a user created during the run has been awarded a completion
C26_Witness ==
    \E r \in Slots :
        /\ IsCreation(r)
        /\ req[r].user \in users
        /\ stats[req[r].user].lessonsCompleted = LESSON_INC
        /\ \E q \in Slots : IsUpdate(q) /\ Done(q) /\ req[q].user = req[r].user /\ req[q].awarded

\* ---------------------------------------------------------------------- C27
Dated(p) == p.completedAt # NullDate

\* C27: in every reachable state every LessonProgress record has completedAt non-null
\* exactly when its isCompleted is true, whatever updates of the same pair overlap.
C27_CompletedAtIffCompleted ==
    \A p \in progress : Dated(p) <=> p.isCompleted

\* two overlapping updates of one pair, one completing and one not, have both written
C27_Witness ==
    \E r1, r2 \in Slots :
        /\ Overlap(r1, r2) /\ IsUpdate(r1) /\ IsUpdate(r2) /\ SamePair(r1, r2)
        /\ Answered(r1, 200) /\ Answered(r2, 200)
        /\ req[r1].isCompleted # req[r2].isCompleted
        /\ \E p \in ProgressMatches(progress, req[r1].user, req[r1].lesson) : ~p.isCompleted

\* ---------------------------------------------------------------------- C28
\* C28: every answer of getCourseSyllabus to an authenticated user reports as many
\* COMPLETED lessons as the completed count its percent was computed from, also when a
\* progress update of the same user overlaps the request.
C28_SyllabusConsistent ==
    \A r \in Slots :
        UserAnswer(r) => CountOf(req[r].result, "COMPLETED") = req[r].completedCount

\* ---------------------------------------------------------------------- C29
CompletedRecords(u) == {p \in progress : p.userId = u /\ p.isCompleted}

NoUpdateInFlight == \A q \in Slots : IsUpdate(q) => ~InFlight(q)

\* every failed update has been sent again, later, and answered 200
FailuresRetried ==
    \A r \in SeqReqs :
        (IsUpdate(r) /\ Answered(r, 500))
            => \E q \in LaterOnPair(r) :
                    Answered(q, 200) /\ req[q].isCompleted = req[r].isCompleted

\* C29: whenever no progress update is in flight and every failed update has been
\* retried, each user's stats.lessonsCompleted is at least the number of the user's
\* LessonProgress records with isCompleted = true.
C29_NoCompletionUnawarded ==
    (NoUpdateInFlight /\ FailuresRetried)
        => \A u \in users : stats[u].lessonsCompleted >= Cardinality(CompletedRecords(u))

\* ---------------------------------------------------------------------- C30
\* C30: in every state with no request in flight every Enrollment record references a
\* course that exists, whatever enrollments, course creations and course deletions
\* were made before.
C30_EnrollmentsReferenceCourses ==
    NoneInFlight => \A e \in enrollments : e.courseId \in courses

====
